---- MODULE Spec2Model ----
(***************************************************************************)
(* Model of postgres-user-manager's database Manager: the statement        *)
(* builders, the existence readers, the mutators and SyncConfiguration,    *)
(* run against a model of the PostgreSQL role catalog.                     *)
(*                                                                         *)
(* Strings are sequences of chunks; the two quote characters are always    *)
(* chunks of their own, so quoting and escaping act on them as the code's  *)
(* strings.ReplaceAll does.  A statement is the sequence of the pieces the *)
(* code formats into its SQL text.  A Go error is a sequence of message    *)
(* parts, outermost wrapper first; nil is the empty sequence.              *)
(***************************************************************************)
EXTENDS Integers, Sequences, FiniteSets, TLC

\* ------------------------------------------------------------------ bounds
MaxGroups == 2
MaxUsers == 2
MaxFaults == 1
MaxOps == 2
MaxLen == 4

\* ------------------------------------------------------------- text layer
DQ == "\""
SQ == "'"
Nil == <<>>

RECURSIVE ReplaceAll(_, _, _)
ReplaceAll(s, old, new) ==
    IF s = <<>> THEN <<>>
    ELSE (IF Head(s) = old THEN new ELSE <<Head(s)>>) \o ReplaceAll(Tail(s), old, new)

\* a quoting that wraps the name and leaves embedded quotes as they are
quoteIdentifier_NoDoubling(name) == <<DQ>> \o name \o <<DQ>>

quoteIdentifier(name) == <<DQ>> \o ReplaceAll(name, DQ, <<DQ, DQ>>) \o <<DQ>>

escapeString(s) == ReplaceAll(s, SQ, <<SQ, SQ>>)

KW(word) == <<word>>

\* fmt's %d
FormatInt(n) == <<ToString(n)>>

\* ------------------------------------------------------ statement builders
buildCreateUserQuery(user) ==
    LET q0 == <<KW("CREATE USER"), quoteIdentifier(user.Username)>>
        q1 == IF user.AuthMethod = "iam" THEN q0
              ELSE IF user.Password # <<>>
                   THEN q0 \o <<KW("WITH PASSWORD"),
                                <<SQ>> \o escapeString(user.Password) \o <<SQ>> >>
                   ELSE q0
        q2 == q1 \o (IF user.CanLogin THEN <<KW("LOGIN")>> ELSE <<KW("NOLOGIN")>>)
    IN  IF user.ConnectionLimit # 0
        THEN IF user.ConnectionLimit = -1
             THEN q2 \o <<KW("CONNECTION LIMIT"), <<"-1">> >>
             ELSE q2 \o <<KW("CONNECTION LIMIT"), FormatInt(user.ConnectionLimit)>>
        ELSE q2

grantRDSIAMQuery(username) == <<KW("GRANT"), <<"rds_iam">>, KW("TO"), quoteIdentifier(username)>>

revokeRDSIAMQuery(username) == <<KW("REVOKE"), <<"rds_iam">>, KW("FROM"), quoteIdentifier(username)>>

dropUserQuery(username) == <<KW("DROP USER"), quoteIdentifier(username)>>

createRoleQuery(group) ==
    <<KW("CREATE ROLE"), quoteIdentifier(group.Name)>>
        \o (IF group.Inherit THEN <<KW("INHERIT")>> ELSE <<KW("NOINHERIT")>>)

grantPrivQuery(priv, db, target) ==
    <<KW("GRANT"), priv, KW("ON DATABASE"), quoteIdentifier(db), KW("TO"), quoteIdentifier(target)>>

revokePrivQuery(priv, db, target) ==
    <<KW("REVOKE"), priv, KW("ON DATABASE"), quoteIdentifier(db), KW("FROM"), quoteIdentifier(target)>>

addMemberQuery(username, groupName) ==
    <<KW("GRANT"), quoteIdentifier(groupName), KW("TO"), quoteIdentifier(username)>>

removeMemberQuery(username, groupName) ==
    <<KW("REVOKE"), quoteIdentifier(groupName), KW("FROM"), quoteIdentifier(username)>>

userExistsQuery(username) == <<KW("SELECT 1 FROM pg_user WHERE usename ="), username>>

groupExistsQuery(groupName) == <<KW("SELECT 1 FROM pg_roles WHERE rolname ="), groupName>>

\* ------------------------------------------------- the PostgreSQL catalog
\* A database state: roles (pg_authid) with their attributes, role memberships
\* (pg_auth_members, as <<member, group>>) and database-level privileges
\* (pg_database.datacl, as <<role, database, privilege>>).
AppDb == <<"app">>
Databases == {AppDb}
DatabasePrivileges == {<<"CONNECT">>, <<"CREATE">>, <<"TEMPORARY">>}
ConnLimits == {-1, 5}

Bad == [ok |-> FALSE, v |-> <<>>]

\* the body of a delimited identifier or literal, its doubled delimiters undoubled
Cons(ch, r) == [ok |-> r.ok, v |-> <<ch>> \o r.v]

RECURSIVE UnDouble(_, _)
UnDouble(s, d) ==
    IF s = <<>> THEN [ok |-> TRUE, v |-> <<>>]
    ELSE IF Head(s) = d
         THEN IF Len(s) >= 2 /\ s[2] = d
              THEN Cons(d, UnDouble(Tail(Tail(s)), d))
              ELSE Bad
         ELSE Cons(Head(s), UnDouble(Tail(s), d))

ParseDelimited(tok, d) ==
    IF Len(tok) >= 3 /\ tok[Len(tok)] = d
    THEN UnDouble(SubSeq(tok, 2, Len(tok) - 1), d)
    ELSE Bad

\* an identifier of a statement: delimited, or a bare word
ParseIdent(tok) ==
    IF tok = <<>> THEN Bad
    ELSE IF Head(tok) = DQ THEN ParseDelimited(tok, DQ)
    ELSE [ok |-> DQ \notin {tok[i] : i \in 1..Len(tok)}, v |-> tok]

ParseLiteral(tok) ==
    IF tok # <<>> /\ Head(tok) = SQ
    THEN (IF tok = <<SQ, SQ>> THEN [ok |-> TRUE, v |-> <<>>] ELSE ParseDelimited(tok, SQ))
    ELSE Bad

ParseLimit(tok) ==
    IF \E n \in ConnLimits : tok = <<ToString(n)>>
    THEN [ok |-> TRUE, v |-> CHOOSE n \in ConnLimits : tok = <<ToString(n)>>]
    ELSE [ok |-> FALSE, v |-> 0]

WithPassword(acc, l) == [acc EXCEPT !.ok = l.ok, !.pw = l.v]
WithLimit(acc, l) == [acc EXCEPT !.ok = l.ok, !.limit = l.v]

\* the option clauses of CREATE USER / CREATE ROLE, applied left to right
RECURSIVE ParseOpts(_, _)
ParseOpts(opts, acc) ==
    IF opts = <<>> \/ ~acc.ok THEN acc
    ELSE IF Head(opts) = KW("LOGIN") THEN ParseOpts(Tail(opts), [acc EXCEPT !.login = TRUE])
    ELSE IF Head(opts) = KW("NOLOGIN") THEN ParseOpts(Tail(opts), [acc EXCEPT !.login = FALSE])
    ELSE IF Head(opts) = KW("INHERIT") THEN ParseOpts(Tail(opts), [acc EXCEPT !.inherit = TRUE])
    ELSE IF Head(opts) = KW("NOINHERIT") THEN ParseOpts(Tail(opts), [acc EXCEPT !.inherit = FALSE])
    ELSE IF Head(opts) = KW("WITH PASSWORD") /\ Len(opts) >= 2
         THEN ParseOpts(Tail(Tail(opts)), WithPassword(acc, ParseLiteral(opts[2])))
    ELSE IF Head(opts) = KW("CONNECTION LIMIT") /\ Len(opts) >= 2
         THEN ParseOpts(Tail(Tail(opts)), WithLimit(acc, ParseLimit(opts[2])))
    ELSE [acc EXCEPT !.ok = FALSE]

Rejected(db) == [ok |-> FALSE, db |-> db]
Applied(db) == [ok |-> TRUE, db |-> db]

NewRole(db, id, o) ==
    IF ~id.ok \/ ~o.ok \/ id.v \in DOMAIN db.roles THEN Rejected(db)
    ELSE Applied([db EXCEPT !.roles =
             [n \in DOMAIN db.roles \cup {id.v} |->
                 IF n = id.v
                 THEN [login |-> o.login, inherit |-> o.inherit,
                       limit |-> o.limit, pw |-> o.pw]
                 ELSE db.roles[n]]])

\* CREATE USER (LOGIN by default) and CREATE ROLE (NOLOGIN by default)
PgCreateRole(db, q, defaultLogin) ==
    NewRole(db, ParseIdent(q[2]),
            ParseOpts(SubSeq(q, 3, Len(q)),
                      [ok |-> TRUE, login |-> defaultLogin, inherit |-> TRUE,
                       limit |-> -1, pw |-> <<>>]))

RemoveRole(db, id) ==
    IF ~id.ok \/ id.v \notin DOMAIN db.roles
       \/ (\E p \in db.privs : p[1] = id.v)
    THEN Rejected(db)
    ELSE Applied([db EXCEPT
             !.roles = [n \in DOMAIN db.roles \ {id.v} |-> db.roles[n]],
             !.members = {m \in db.members : m[1] # id.v /\ m[2] # id.v}])

\* DROP USER: refused while the role still holds database privileges
PgDropRole(db, q) == RemoveRole(db, ParseIdent(q[2]))

Grow(db, seen) == seen \cup {m[2] : m \in {x \in db.members : x[1] \in seen}}

\* the roles that the roles of seen are members of, directly or through other roles
RECURSIVE MemberClosure(_, _, _)
MemberClosure(db, seen, k) ==
    IF k = 0 \/ Grow(db, seen) = seen THEN seen ELSE MemberClosure(db, Grow(db, seen), k - 1)

AddMember(db, g, u) ==
    IF ~g.ok \/ ~u.ok \/ g.v \notin DOMAIN db.roles \/ u.v \notin DOMAIN db.roles
       \/ u.v \in MemberClosure(db, {g.v}, Cardinality(DOMAIN db.roles))
    THEN Rejected(db)
    ELSE Applied([db EXCEPT !.members = @ \cup {<<u.v, g.v>>}])

\* GRANT role TO member: refused if it would close a membership cycle
PgGrantRole(db, q) == AddMember(db, ParseIdent(q[2]), ParseIdent(q[4]))

RemoveMember(db, g, u) ==
    IF ~g.ok \/ ~u.ok \/ g.v \notin DOMAIN db.roles \/ u.v \notin DOMAIN db.roles
    THEN Rejected(db)
    ELSE Applied([db EXCEPT !.members = @ \ {<<u.v, g.v>>}])

\* REVOKE role FROM member: a membership never held is only a warning
PgRevokeRole(db, q) == RemoveMember(db, ParseIdent(q[2]), ParseIdent(q[4]))

AclOk(db, priv, d, t) ==
    /\ priv \in DatabasePrivileges
    /\ d.ok
    /\ t.ok
    /\ d.v \in Databases
    /\ t.v \in DOMAIN db.roles

AddAcl(db, priv, d, t) ==
    IF AclOk(db, priv, d, t) THEN Applied([db EXCEPT !.privs = @ \cup {<<t.v, d.v, priv>>}])
    ELSE Rejected(db)

DropAcl(db, priv, d, t) ==
    IF AclOk(db, priv, d, t) THEN Applied([db EXCEPT !.privs = @ \ {<<t.v, d.v, priv>>}])
    ELSE Rejected(db)

\* GRANT privilege ON DATABASE database TO role
PgGrantOnDatabase(db, q) == AddAcl(db, q[2], ParseIdent(q[4]), ParseIdent(q[6]))

\* REVOKE privilege ON DATABASE database FROM role
PgRevokeOnDatabase(db, q) == DropAcl(db, q[2], ParseIdent(q[4]), ParseIdent(q[6]))

\* what the server does with one statement handed to db.Exec
ExecSQL(db, q) ==
    IF q[1] = KW("CREATE USER") THEN PgCreateRole(db, q, TRUE)
    ELSE IF q[1] = KW("CREATE ROLE") THEN PgCreateRole(db, q, FALSE)
    ELSE IF q[1] = KW("DROP USER") THEN PgDropRole(db, q)
    ELSE IF q[1] = KW("GRANT") /\ Len(q) = 6 /\ q[3] = KW("ON DATABASE") /\ q[5] = KW("TO")
         THEN PgGrantOnDatabase(db, q)
    ELSE IF q[1] = KW("REVOKE") /\ Len(q) = 6 /\ q[3] = KW("ON DATABASE") /\ q[5] = KW("FROM")
         THEN PgRevokeOnDatabase(db, q)
    ELSE IF q[1] = KW("GRANT") /\ Len(q) = 4 /\ q[3] = KW("TO") THEN PgGrantRole(db, q)
    ELSE IF q[1] = KW("REVOKE") /\ Len(q) = 4 /\ q[3] = KW("FROM") THEN PgRevokeRole(db, q)
    ELSE Rejected(db)

\* pg_user lists only the roles that can log in; pg_roles lists every role
PgUserRow(db, name) == name \in DOMAIN db.roles /\ db.roles[name].login
PgRolesRow(db, name) == name \in DOMAIN db.roles

\* ------------------------------------------------------------ the Manager
\* A call runs on a record s: the database, the log of the statements it has
\* sent or (in dry-run) only logged, the count n of round trips made, and the
\* result of the last step (err; found for a reader).  F is the set of round
\* trips (by ordinal) that fail in transit: connection loss, timeout.
Start(db) == [db |-> db, log |-> <<>>, n |-> 0, err |-> Nil, found |-> FALSE]

Wrap(msg, err) == <<msg>> \o err

Return(s, err) == [s EXCEPT !.err = err, !.found = FALSE]

\* if err != nil { return fmt.Errorf(msg, err) }
OnErr(x, msg) == IF x.err # Nil THEN Return(x, Wrap(msg, x.err)) ELSE x

RoundTrip(s, q, how, ok, db, found) ==
    [db    |-> IF ok THEN db ELSE s.db,
     log   |-> Append(s.log, [q |-> q, how |-> how, ok |-> ok]),
     n     |-> s.n + 1,
     err   |-> IF ok THEN Nil ELSE <<"pq: " \o how \o " failed">>,
     found |-> ok /\ found]

Executed(s, F, q, r) == RoundTrip(s, q, "exec", (s.n + 1) \notin F /\ r.ok, r.db, FALSE)

\* m.db.Exec(query)
Exec(s, F, q) == Executed(s, F, q, ExecSQL(s.db, q))

\* m.db.QueryRow(query, arg).Scan(&exists)
QueryRow(s, F, q, row) == RoundTrip(s, q, "query", (s.n + 1) \notin F, s.db, row)

\* the dry-run branch: the statement is logged, not sent
DryRunLog(s, q) ==
    [s EXCEPT !.log = Append(s.log, [q |-> q, how |-> "dry", ok |-> TRUE]),
              !.err = Nil, !.found = FALSE]

\* a UserExists that reads the catalog of all roles
UserExists_ReadsPgRoles(s, F, username) ==
    QueryRow(s, F, groupExistsQuery(username), PgRolesRow(s.db, username))

UserExists(s, F, username) ==
    QueryRow(s, F, userExistsQuery(username), PgUserRow(s.db, username))

GroupExists(s, F, groupName) ==
    QueryRow(s, F, groupExistsQuery(groupName), PgRolesRow(s.db, groupName))

grantRDSIAMRole(s, dry, F, username) ==
    IF dry THEN DryRunLog(s, grantRDSIAMQuery(username))
    ELSE OnErr(Exec(s, F, grantRDSIAMQuery(username)), "failed to grant rds_iam role")

revokeRDSIAMRole(s, dry, F, username) ==
    IF dry THEN DryRunLog(s, revokeRDSIAMQuery(username))
    ELSE OnErr(Exec(s, F, revokeRDSIAMQuery(username)), "failed to revoke rds_iam role")

\* a CreateUser that only logs a failed rds_iam grant
CreateUserExecuted_GrantErrorSwallowed(x, dry, F, user) ==
    IF x.err # Nil THEN Return(x, Wrap("failed to create user", x.err))
    ELSE IF user.AuthMethod = "iam"
         THEN Return(grantRDSIAMRole(x, dry, F, user.Username), Nil)
         ELSE x

\* CreateUser from the result x of its CREATE USER statement on
CreateUserExecuted(x, dry, F, user) ==
    IF x.err # Nil THEN Return(x, Wrap("failed to create user", x.err))
    ELSE IF user.AuthMethod = "iam"
         THEN OnErr(grantRDSIAMRole(x, dry, F, user.Username),
                    "failed to grant rds_iam role to user")
         ELSE x

\* CreateUser from the result e of its existence check on
CreateUserChecked(e, dry, F, user) ==
    IF e.err # Nil THEN Return(e, Wrap("failed to check if user exists", e.err))
    ELSE IF e.found THEN Return(e, Nil)
    ELSE IF dry THEN DryRunLog(e, buildCreateUserQuery(user))
    ELSE CreateUserExecuted(Exec(e, F, buildCreateUserQuery(user)), dry, F, user)

CreateUser(s, dry, F, user) == CreateUserChecked(UserExists(s, F, user.Username), dry, F, user)

DropUserChecked(e, dry, F, username) ==
    IF e.err # Nil THEN Return(e, Wrap("failed to check if user exists", e.err))
    ELSE IF ~e.found THEN Return(e, Nil)
    ELSE IF dry THEN DryRunLog(e, dropUserQuery(username))
    ELSE OnErr(Exec(e, F, dropUserQuery(username)), "failed to drop user")

DropUser(s, dry, F, username) == DropUserChecked(UserExists(s, F, username), dry, F, username)

\* a CreateGroup whose dry-run branch is missing
CreateGroupChecked_NoDryRun(e, dry, F, group) ==
    IF e.err # Nil THEN Return(e, Wrap("failed to check if group exists", e.err))
    ELSE IF e.found THEN Return(e, Nil)
    ELSE OnErr(Exec(e, F, createRoleQuery(group)), "failed to create group")

\* a CreateGroup that takes a failed existence query for "no such group"
CreateGroupChecked_QueryErrorAsAbsent(e, dry, F, group) ==
    IF e.found THEN Return(e, Nil)
    ELSE IF dry THEN DryRunLog(e, createRoleQuery(group))
    ELSE OnErr(Exec(e, F, createRoleQuery(group)), "failed to create group")

CreateGroupChecked(e, dry, F, group) ==
    IF e.err # Nil THEN Return(e, Wrap("failed to check if group exists", e.err))
    ELSE IF e.found THEN Return(e, Nil)
    ELSE IF dry THEN DryRunLog(e, createRoleQuery(group))
    ELSE OnErr(Exec(e, F, createRoleQuery(group)), "failed to create group")

CreateGroup(s, dry, F, group) == CreateGroupChecked(GroupExists(s, F, group.Name), dry, F, group)

\* the pairs with the privileges in the outer loop
PrivPairs_PrivilegeOuter(privileges, databases) ==
    [k \in 1..(Len(databases) * Len(privileges)) |->
        [db   |-> databases[((k - 1) % Len(databases)) + 1],
         priv |-> privileges[((k - 1) \div Len(databases)) + 1]]]

\* the (database, privilege) pairs in the order the nested loops visit them
PrivPairs(privileges, databases) ==
    [k \in 1..(Len(databases) * Len(privileges)) |->
        [db   |-> databases[((k - 1) \div Len(privileges)) + 1],
         priv |-> privileges[((k - 1) % Len(privileges)) + 1]]]

\* GrantPrivileges' nested loops from the k-th pair on
RECURSIVE GrantLoop(_, _, _, _, _, _)
GrantLoopSent(x, dry, F, target, pairs, k) ==
    IF x.err # Nil THEN Return(x, Wrap("failed to grant", x.err))
    ELSE GrantLoop(x, dry, F, target, pairs, k + 1)

GrantLoop(s, dry, F, target, pairs, k) ==
    IF k > Len(pairs) THEN Return(s, Nil)
    ELSE IF dry
         THEN GrantLoop(DryRunLog(s, grantPrivQuery(pairs[k].priv, pairs[k].db, target)),
                        dry, F, target, pairs, k + 1)
         ELSE GrantLoopSent(Exec(s, F, grantPrivQuery(pairs[k].priv, pairs[k].db, target)),
                            dry, F, target, pairs, k)

GrantPrivileges(s, dry, F, target, privileges, databases) ==
    GrantLoop(s, dry, F, target, PrivPairs(privileges, databases), 1)

\* RevokePrivileges' nested loops from the k-th pair on
RECURSIVE RevokeLoop(_, _, _, _, _, _)
RevokeLoopSent(x, dry, F, target, pairs, k) ==
    IF x.err # Nil THEN Return(x, Wrap("failed to revoke", x.err))
    ELSE RevokeLoop(x, dry, F, target, pairs, k + 1)

RevokeLoop(s, dry, F, target, pairs, k) ==
    IF k > Len(pairs) THEN Return(s, Nil)
    ELSE IF dry
         THEN RevokeLoop(DryRunLog(s, revokePrivQuery(pairs[k].priv, pairs[k].db, target)),
                         dry, F, target, pairs, k + 1)
         ELSE RevokeLoopSent(Exec(s, F, revokePrivQuery(pairs[k].priv, pairs[k].db, target)),
                             dry, F, target, pairs, k)

RevokePrivileges(s, dry, F, target, privileges, databases) ==
    RevokeLoop(s, dry, F, target, PrivPairs(privileges, databases), 1)

\* a membership grant that first asks whether the group exists and skips it if not
AddUserToGroup_SkipMissingGroup(s, dry, F, username, groupName) ==
    IF dry THEN DryRunLog(s, addMemberQuery(username, groupName))
    ELSE IF ~PgRolesRow(s.db, groupName) THEN Return(GroupExists(s, F, groupName), Nil)
    ELSE OnErr(Exec(s, F, addMemberQuery(username, groupName)), "failed to add user to group")

AddUserToGroup(s, dry, F, username, groupName) ==
    IF dry THEN DryRunLog(s, addMemberQuery(username, groupName))
    ELSE OnErr(Exec(s, F, addMemberQuery(username, groupName)), "failed to add user to group")

RemoveUserFromGroup(s, dry, F, username, groupName) ==
    IF dry THEN DryRunLog(s, removeMemberQuery(username, groupName))
    ELSE OnErr(Exec(s, F, removeMemberQuery(username, groupName)),
               "failed to remove user from group")

\* ------------------------------------------------------ SyncConfiguration
\* One entry of result.Errors: the wrapper SyncConfiguration adds and its cause.
SyncError(op, target, group, cause) ==
    [op |-> op, target |-> target, group |-> group, cause |-> cause]

\* &structs.SyncResult{}
EmptyResult ==
    [UsersCreated |-> <<>>, UsersModified |-> <<>>, UsersRemoved |-> <<>>,
     GroupsCreated |-> <<>>, GroupsModified |-> <<>>, GroupsRemoved |-> <<>>,
     Errors |-> <<>>]

Call(op, target, arg) == [op |-> op, target |-> target, arg |-> arg]

\* A walk state w: the Manager record s, the result so far and the Manager
\* methods called so far.
Called(w, s, op, target, arg) ==
    [s |-> s, calls |-> Append(w.calls, Call(op, target, arg)), res |-> w.res]

\* if err != nil { result.Errors = append(result.Errors, ...) }
Collect(w, op, target, group) ==
    IF w.s.err # Nil
    THEN [w EXCEPT !.res.Errors = Append(@, SyncError(op, target, group, w.s.err))]
    ELSE w

\* a group loop that records the group as created before it looks at the error
SyncGroupCreated_RecordBeforeCheck(w, dry, F, group) ==
    IF w.s.err # Nil
    THEN Collect([w EXCEPT !.res.GroupsCreated = Append(@, group.Name)],
                 "create group", group.Name, <<>>)
    ELSE Collect(Called([w EXCEPT !.res.GroupsCreated = Append(@, group.Name)],
                        GrantPrivileges(w.s, dry, F, group.Name,
                                        group.Privileges, group.Databases),
                        "GrantPrivileges", group.Name, <<>>),
                 "grant privileges to group", group.Name, <<>>)

\* a group loop that grants the privileges of a group whose creation failed
SyncGroupCreated_GrantAfterError(w, dry, F, group) ==
    Collect(Called(IF w.s.err # Nil THEN Collect(w, "create group", group.Name, <<>>)
                   ELSE [w EXCEPT !.res.GroupsCreated = Append(@, group.Name)],
                   GrantPrivileges(w.s, dry, F, group.Name, group.Privileges, group.Databases),
                   "GrantPrivileges", group.Name, <<>>),
            "grant privileges to group", group.Name, <<>>)

\* the group loop's body once CreateGroup has returned
SyncGroupCreated(w, dry, F, group) ==
    IF w.s.err # Nil THEN Collect(w, "create group", group.Name, <<>>)
    ELSE Collect(Called([w EXCEPT !.res.GroupsCreated = Append(@, group.Name)],
                        GrantPrivileges(w.s, dry, F, group.Name,
                                        group.Privileges, group.Databases),
                        "GrantPrivileges", group.Name, <<>>),
                 "grant privileges to group", group.Name, <<>>)

\* a group loop that stops doing work once an error has been collected
SyncGroup_AbortAfterError(w, dry, F, group) ==
    IF w.res.Errors # <<>> THEN w
    ELSE SyncGroupCreated(Called(w, CreateGroup(w.s, dry, F, group), "CreateGroup", group.Name, <<>>),
                          dry, F, group)

\* the body of the group loop, for one group
SyncGroup(w, dry, F, group) ==
    SyncGroupCreated(Called(w, CreateGroup(w.s, dry, F, group), "CreateGroup", group.Name, <<>>),
                     dry, F, group)

\* a membership loop that stops at the first group name that fails
RECURSIVE AddGroupsLoop_StopAtFirstError(_, _, _, _, _)
AddGroupsLoop_StopAtFirstError(w, dry, F, user, k) ==
    IF k > Len(user.Groups) \/ (k > 1 /\ w.s.err # Nil) THEN w
    ELSE AddGroupsLoop_StopAtFirstError(
             Collect(Called(w, AddUserToGroup(w.s, dry, F, user.Username, user.Groups[k]),
                            "AddUserToGroup", user.Username, user.Groups[k]),
                     "add user to group", user.Username, user.Groups[k]),
             dry, F, user, k + 1)

\* the membership loop of one user, from its k-th group name on
RECURSIVE AddGroupsLoop(_, _, _, _, _)
AddGroupsLoop(w, dry, F, user, k) ==
    IF k > Len(user.Groups) THEN w
    ELSE AddGroupsLoop(
             Collect(Called(w, AddUserToGroup(w.s, dry, F, user.Username, user.Groups[k]),
                            "AddUserToGroup", user.Username, user.Groups[k]),
                     "add user to group", user.Username, user.Groups[k]),
             dry, F, user, k + 1)

\* the user loop's body once the memberships are done
SyncUserGrant(w, dry, F, user) ==
    Collect(Called(w, GrantPrivileges(w.s, dry, F, user.Username,
                                      user.Privileges, user.Databases),
                   "GrantPrivileges", user.Username, <<>>),
            "grant privileges to user", user.Username, <<>>)

\* a user loop that grants the privileges before it adds the memberships
SyncUserCreated_GrantsFirst(w, dry, F, user) ==
    IF w.s.err # Nil THEN Collect(w, "create user", user.Username, <<>>)
    ELSE AddGroupsLoop(
             SyncUserGrant([w EXCEPT !.res.UsersCreated = Append(@, user.Username)],
                           dry, F, user),
             dry, F, user, 1)

\* a user loop that goes on to the memberships and privileges of a user whose
\* creation failed
SyncUserCreated_ContinueAfterError(w, dry, F, user) ==
    SyncUserGrant(
        AddGroupsLoop(IF w.s.err # Nil THEN Collect(w, "create user", user.Username, <<>>)
                      ELSE [w EXCEPT !.res.UsersCreated = Append(@, user.Username)],
                      dry, F, user, 1),
        dry, F, user)

\* the user loop's body once CreateUser has returned
SyncUserCreated(w, dry, F, user) ==
    IF w.s.err # Nil THEN Collect(w, "create user", user.Username, <<>>)
    ELSE SyncUserGrant(
             AddGroupsLoop([w EXCEPT !.res.UsersCreated = Append(@, user.Username)],
                           dry, F, user, 1),
             dry, F, user)

\* a user loop without the enabled gate
SyncUser_IgnoreEnabled(w, dry, F, user) ==
    SyncUserCreated(
        Called(w, CreateUser(w.s, dry, F, user), "CreateUser", user.Username, <<>>),
        dry, F, user)

\* a user loop that drops the users the configuration disables
SyncUser_DropDisabled(w, dry, F, user) ==
    IF ~user.Enabled
    THEN Called(w, DropUser(w.s, dry, F, user.Username), "DropUser", user.Username, <<>>)
    ELSE SyncUserCreated(
             Called(w, CreateUser(w.s, dry, F, user), "CreateUser", user.Username, <<>>),
             dry, F, user)

\* the body of the user loop, for one user
SyncUser(w, dry, F, user) ==
    IF ~user.Enabled THEN w
    ELSE SyncUserCreated(
             Called(w, CreateUser(w.s, dry, F, user), "CreateUser", user.Username, <<>>),
             dry, F, user)

\* ------------------------------------------------------------------ inputs
GroupName(i) == <<"g", ToString(i)>>
UserName(i) == IF i % 2 = 0 THEN <<"u", DQ, ToString(i)>> ELSE <<"u", ToString(i)>>
NoGroup == <<"nogroup">>
NoDb == <<"nodb">>
RdsIam == <<"rds_iam">>
Connect == <<"CONNECT">>
Create == <<"CREATE">>
Select == <<"SELECT">>
Secret == <<"p", SQ, "w">>

GroupProfiles ==
    { [Inherit |-> TRUE,  Privileges |-> <<Connect>>,         Databases |-> <<AppDb>>],
      [Inherit |-> FALSE, Privileges |-> <<Connect, Select>>, Databases |-> <<AppDb>>] }

UserProfiles ==
    { [Enabled |-> TRUE, AuthMethod |-> "password", Password |-> Secret, CanLogin |-> TRUE,
       ConnectionLimit |-> -1, Groups |-> <<GroupName(1)>>,
       Privileges |-> <<Connect>>, Databases |-> <<AppDb>>],
      [Enabled |-> FALSE, AuthMethod |-> "password", Password |-> Secret, CanLogin |-> TRUE,
       ConnectionLimit |-> -1, Groups |-> <<GroupName(1)>>,
       Privileges |-> <<Connect>>, Databases |-> <<AppDb>>],
      [Enabled |-> TRUE, AuthMethod |-> "iam", Password |-> <<>>, CanLogin |-> TRUE,
       ConnectionLimit |-> 5, Groups |-> <<NoGroup, GroupName(1)>>,
       Privileges |-> <<>>, Databases |-> <<>>] }

GroupSpec(i, p) ==
    [Name |-> GroupName(i), Inherit |-> p.Inherit,
     Privileges |-> p.Privileges, Databases |-> p.Databases]

UserSpec(i, p) ==
    [Username |-> UserName(i), Password |-> p.Password, Groups |-> p.Groups,
     Privileges |-> p.Privileges, Databases |-> p.Databases, Enabled |-> p.Enabled,
     AuthMethod |-> p.AuthMethod, CanLogin |-> p.CanLogin,
     ConnectionLimit |-> p.ConnectionLimit]

\* the lists of at most n entries, the i-th named by its position
GroupLists(n) ==
    UNION { { [i \in 1..k |-> GroupSpec(i, f[i])] : f \in [1..k -> GroupProfiles] } : k \in 0..n }

UserLists(n) ==
    UNION { { [i \in 1..k |-> UserSpec(i, f[i])] : f \in [1..k -> UserProfiles] } : k \in 0..n }

\* nothing keeps a group and a user of one configuration from sharing a name
SharedNameConfig ==
    [Groups |-> <<[Name |-> UserName(1), Inherit |-> TRUE,
                   Privileges |-> <<Create>>, Databases |-> <<AppDb>>]>>,
     Users  |-> <<UserSpec(1, CHOOSE p \in UserProfiles : ~p.Enabled)>>]

Configs ==
    { [Groups |-> g, Users |-> u] : g \in GroupLists(MaxGroups), u \in UserLists(MaxUsers) }
        \cup {SharedNameConfig}

NoConfig == [Groups |-> <<>>, Users |-> <<>>]

LoginRole == [login |-> TRUE, inherit |-> TRUE, limit |-> -1, pw |-> Secret]
PlainRole == [login |-> FALSE, inherit |-> TRUE, limit |-> -1, pw |-> <<>>]

\* a fresh RDS server (it has the rds_iam role), and one left by earlier runs:
\* a group, a login user in it with a privilege, and a NOLOGIN user
RdsDB == [roles |-> [n \in {RdsIam} |-> PlainRole], members |-> {}, privs |-> {}]
SeededDB ==
    [roles   |-> [n \in {RdsIam, GroupName(1), UserName(1), UserName(2)} |->
                     IF n = UserName(1) THEN LoginRole ELSE PlainRole],
     members |-> {<<UserName(1), GroupName(1)>>},
     privs   |-> {<<UserName(1), AppDb, Connect>>}]

InitDBs == {RdsDB, SeededDB}

\* the sets of at most k elements of S
RECURSIVE SubsetsUpTo(_, _)
SubsetsUpTo(S, k) ==
    IF k = 0 THEN {{}}
    ELSE LET prev == SubsetsUpTo(S, k - 1) IN prev \cup {A \cup {x} : A \in prev, x \in S}

\* an upper bound of the round trips one loop body makes
GroupTrips(g) == 2 + Len(g.Privileges) * Len(g.Databases)
UserTrips(u) == 3 + Len(u.Groups) + Len(u.Privileges) * Len(u.Databases)

\* ----------------------------------------------------------------- state
VARIABLES db, dryRun, pc, idx, config, result, calls, log, pre, ret, budget, nOps, prev, last,
          text, out, env, conn, mgr, wire, stage, job, procs

vars == <<db, dryRun, pc, idx, config, result, calls, log, pre, ret, budget, nOps, prev, last,
          text, out, env, conn, mgr, wire, stage, job, procs>>

\* the environment, the connection parameters read from it or handed over, the
\* outcome of NewManager, the round trips made on the connection, and how far
\* the start of a command has come
connVars == <<env, conn, mgr, wire, stage>>

\* the argument and the result of a call of one of the two text helpers, and
\* the start of a command
auxVars == <<text, out, env, conn, mgr, wire, stage, job, procs>>

\* the call two Managers make at the same time, and how far each has come
raceVars == <<job, procs>>

NoOut == [op |-> "none", v |-> <<>>]

\* the zero value of structs.DatabaseConnection
NoConnection ==
    [Host |-> "", Port |-> 0, Database |-> "", Username |-> "", Password |-> "",
     SSLMode |-> "", IAMAuth |-> FALSE, AWSRegion |-> "", IAMToken |-> ""]

NoEnv ==
    [POSTGRES_HOST |-> "", POSTGRES_PORT |-> <<>>, POSTGRES_PASSWORD |-> "",
     POSTGRES_SSLMODE |-> "", POSTGRES_IAM_AUTH |-> "", AWS_REGION |-> "",
     POSTGRES_IAM_TOKEN |-> ""]

NoParams == [c |-> NoConnection, err |-> <<>>, from |-> "none"]

NoManager == [made |-> FALSE, dryRun |-> FALSE, connStr |-> <<>>, err |-> <<>>]

NoJob == [op |-> "none", arg |-> <<>>]

\* one Manager only
Alone ==
    /\ job = NoJob
    /\ procs = <<>>

\* the Manager in hand was built elsewhere: nothing of the start of a command
\* is followed
Connected ==
    /\ env = NoEnv
    /\ conn = NoParams
    /\ mgr = NoManager
    /\ wire = <<>>
    /\ stage = "connected"

opVars == <<nOps, prev, last>>

syncVars == <<pc, idx, config, result, calls, log, pre, ret>>

NotReturned == [returned |-> FALSE, err |-> Nil]

\* the record of one single-entity call: what it was given and what it left
NoOp == [op |-> "none", arg |-> <<>>, dry |-> FALSE, pre |-> RdsDB, post |-> RdsDB,
         err |-> Nil, log |-> <<>>, faults |-> {}]

\* no Manager method has been called yet
Idle ==
    /\ pc = "idle"
    /\ idx = 0
    /\ config = NoConfig
    /\ result = EmptyResult
    /\ calls = <<>>
    /\ log = <<>>
    /\ pre = db
    /\ ret = NotReturned
    /\ budget = MaxFaults
    /\ nOps = 0
    /\ prev = NoOp
    /\ last = NoOp

Init ==
    /\ db \in InitDBs
    /\ dryRun \in BOOLEAN
    /\ Idle
    /\ text = <<>>
    /\ out = NoOut
    /\ Connected
    /\ Alone

Tag(entries, phase, i) ==
    [k \in 1..Len(entries) |->
        [q |-> entries[k].q, how |-> entries[k].how, ok |-> entries[k].ok,
         phase |-> phase, idx |-> i]]

StartSync(cfg) ==
    /\ pc = "idle"
    /\ nOps = 0
    /\ pc' = "groups"
    /\ idx' = 1
    /\ config' = cfg
    /\ result' = EmptyResult
    /\ calls' = <<>>
    /\ log' = <<>>
    /\ pre' = db
    /\ UNCHANGED <<db, dryRun, ret, budget>>
    /\ UNCHANGED opVars
    /\ UNCHANGED auxVars

Walk == [s |-> Start(db), calls |-> calls, res |-> result]

Land(w, F, phase) ==
    /\ F \subseteq 1..w.s.n
    /\ db' = w.s.db
    /\ result' = w.res
    /\ calls' = w.calls
    /\ log' = log \o Tag(w.s.log, phase, idx)
    /\ budget' = budget - Cardinality(F)
    /\ idx' = idx + 1
    /\ UNCHANGED <<dryRun, pc, config, pre, ret>>
    /\ UNCHANGED opVars
    /\ UNCHANGED auxVars

SyncGroupStep ==
    /\ pc = "groups"
    /\ idx <= Len(config.Groups)
    /\ \E F \in SubsetsUpTo(1..GroupTrips(config.Groups[idx]), budget) :
          Land(SyncGroup(Walk, dryRun, F, config.Groups[idx]), F, "group")

GroupsDone ==
    /\ pc = "groups"
    /\ idx > Len(config.Groups)
    /\ pc' = "users"
    /\ idx' = 1
    /\ UNCHANGED <<db, dryRun, config, result, calls, log, pre, ret, budget>>
    /\ UNCHANGED opVars
    /\ UNCHANGED auxVars

SyncUserStep ==
    /\ pc = "users"
    /\ idx <= Len(config.Users)
    /\ \E F \in SubsetsUpTo(1..UserTrips(config.Users[idx]), budget) :
          Land(SyncUser(Walk, dryRun, F, config.Users[idx]), F, "user")

\* a walk that reports its collected errors as an error value
SyncReturn_ErrorOnFailures ==
    /\ pc = "users"
    /\ idx > Len(config.Users)
    /\ pc' = "done"
    /\ ret' = [returned |-> TRUE,
               err |-> IF result.Errors = <<>> THEN Nil ELSE <<"sync completed with errors">>]
    /\ UNCHANGED <<db, dryRun, idx, config, result, calls, log, pre, budget>>
    /\ UNCHANGED opVars
    /\ UNCHANGED auxVars

SyncReturn ==
    /\ pc = "users"
    /\ idx > Len(config.Users)
    /\ pc' = "done"
    /\ ret' = [returned |-> TRUE, err |-> Nil]
    /\ UNCHANGED <<db, dryRun, idx, config, result, calls, log, pre, budget>>
    /\ UNCHANGED opVars
    /\ UNCHANGED auxVars

\* --------------------------------------------- single-entity operations
\* The CLI's single-entity commands and the tests call one Manager method at a
\* time; last and prev keep what the last two calls were given and what they left.
OpUserSpecs ==
    { [Username |-> UserName(i), Password |-> a.pw, Groups |-> <<>>, Privileges |-> <<>>,
       Databases |-> <<>>, Enabled |-> TRUE, AuthMethod |-> a.auth, CanLogin |-> l,
       ConnectionLimit |-> a.limit] :
        i \in 1..2, l \in BOOLEAN,
        a \in { [auth |-> "password", pw |-> <<>>, limit |-> 0],
                [auth |-> "password", pw |-> Secret, limit |-> 5],
                [auth |-> "iam", pw |-> Secret, limit |-> 0] } }

OpGroupSpecs ==
    { [Name |-> n, Inherit |-> h, Privileges |-> <<>>, Databases |-> <<>>] :
        n \in {GroupName(1), UserName(1)}, h \in BOOLEAN }

OpUserNames == {UserName(1), UserName(2)}
OpGroupNames == {GroupName(1), NoGroup}
OpTargets == {UserName(1), GroupName(1)}
OpGrants ==
    { [privs |-> <<Connect, Select>>, dbs |-> <<AppDb>>],
      [privs |-> <<Connect, Create>>, dbs |-> <<AppDb, NoDb>>] }

Faults(trips) == SubsetsUpTo(1..trips, budget)

Done(op, arg, r, F) ==
    /\ pc = "idle"
    /\ nOps < MaxOps
    /\ F \subseteq 1..r.n
    /\ db' = r.db
    /\ budget' = budget - Cardinality(F)
    /\ nOps' = nOps + 1
    /\ prev' = last
    /\ last' = [op |-> op, arg |-> arg, dry |-> dryRun, pre |-> db, post |-> r.db,
                err |-> r.err, log |-> r.log, faults |-> F]
    /\ UNCHANGED dryRun
    /\ UNCHANGED syncVars
    /\ UNCHANGED auxVars

DoCreateUser(user) ==
    \E F \in Faults(3) : Done("CreateUser", user, CreateUser(Start(db), dryRun, F, user), F)

DoDropUser(username) ==
    \E F \in Faults(2) :
        Done("DropUser", [Username |-> username], DropUser(Start(db), dryRun, F, username), F)

DoCreateGroup(group) ==
    \E F \in Faults(2) : Done("CreateGroup", group, CreateGroup(Start(db), dryRun, F, group), F)

DoGrantPrivileges(target, g) ==
    \E F \in Faults(Len(g.privs) * Len(g.dbs)) :
        Done("GrantPrivileges", [target |-> target, privs |-> g.privs, dbs |-> g.dbs],
             GrantPrivileges(Start(db), dryRun, F, target, g.privs, g.dbs), F)

DoRevokePrivileges(target, g) ==
    \E F \in Faults(Len(g.privs) * Len(g.dbs)) :
        Done("RevokePrivileges", [target |-> target, privs |-> g.privs, dbs |-> g.dbs],
             RevokePrivileges(Start(db), dryRun, F, target, g.privs, g.dbs), F)

DoAddUserToGroup(username, groupName) ==
    \E F \in Faults(1) :
        Done("AddUserToGroup", [Username |-> username, Group |-> groupName],
             AddUserToGroup(Start(db), dryRun, F, username, groupName), F)

DoRemoveUserFromGroup(username, groupName) ==
    \E F \in Faults(1) :
        Done("RemoveUserFromGroup", [Username |-> username, Group |-> groupName],
             RemoveUserFromGroup(Start(db), dryRun, F, username, groupName), F)

Next ==
    \/ \E user \in OpUserSpecs : DoCreateUser(user)
    \/ \E username \in OpUserNames : DoDropUser(username)
    \/ \E group \in OpGroupSpecs : DoCreateGroup(group)
    \/ \E target \in OpTargets, g \in OpGrants : DoGrantPrivileges(target, g)
    \/ \E g \in OpGrants : DoRevokePrivileges(UserName(1), g)
    \/ \E username \in OpUserNames, groupName \in OpGroupNames :
          DoAddUserToGroup(username, groupName)
    \/ \E groupName \in OpGroupNames : DoRemoveUserFromGroup(UserName(1), groupName)
    \/ \E cfg \in Configs : StartSync(cfg)
    \/ SyncGroupStep
    \/ GroupsDone
    \/ SyncUserStep
    \/ SyncReturn

Spec == Init /\ [][Next]_vars

\* ------------------------------------------------- the two text helpers
\* quoteIdentifier and escapeString called on their own, as TestHelperMethods
\* does, on every string of at most MaxLen characters over a letter and the two
\* quote characters.
Alphabet == {"a", DQ, SQ}

Strings(n) == UNION { [1..k -> Alphabet] : k \in 0..n }

QuoteInit ==
    /\ db = RdsDB
    /\ dryRun = FALSE
    /\ Idle
    /\ text \in Strings(MaxLen)
    /\ out = NoOut
    /\ Connected
    /\ Alone

DoQuoteIdentifier ==
    /\ out = NoOut
    /\ out' = [op |-> "quoteIdentifier", v |-> quoteIdentifier(text)]
    /\ UNCHANGED <<db, dryRun, budget, text>>
    /\ UNCHANGED connVars
    /\ UNCHANGED raceVars
    /\ UNCHANGED opVars
    /\ UNCHANGED syncVars

DoEscapeString ==
    /\ out = NoOut
    /\ out' = [op |-> "escapeString", v |-> escapeString(text)]
    /\ UNCHANGED <<db, dryRun, budget, text>>
    /\ UNCHANGED connVars
    /\ UNCHANGED raceVars
    /\ UNCHANGED opVars
    /\ UNCHANGED syncVars

QuoteNext == DoQuoteIdentifier \/ DoEscapeString

QuoteSpec == QuoteInit /\ [][QuoteNext]_vars

\* ------------------------------------------------ the start of a command
\* Every command of the CLI reads the connection parameters from the
\* environment (GetDatabaseConnection), builds a Manager from them (NewManager)
\* and calls a Manager method; the tests hand a DatabaseConnection of their own
\* to NewManager.  An unset variable and an empty one both read as "".
Spelling(s) ==
    CASE s = "5432" -> <<"5", "4", "3", "2">>
      [] s = "+6432" -> <<"+", "6", "4", "3", "2">>
      [] s = "54x2" -> <<"5", "4", "x", "2">>
      [] s = "-" -> <<"-">>
      [] OTHER -> <<>>

DigitValue(c) ==
    CASE c = "0" -> 0 [] c = "1" -> 1 [] c = "2" -> 2 [] c = "3" -> 3 [] c = "4" -> 4
      [] c = "5" -> 5 [] c = "6" -> 6 [] c = "7" -> 7 [] c = "8" -> 8 [] c = "9" -> 9
      [] OTHER -> -1

RECURSIVE DigitsValue(_)
DigitsValue(cs) ==
    IF cs = <<>> THEN 0
    ELSE 10 * DigitsValue(SubSeq(cs, 1, Len(cs) - 1)) + DigitValue(cs[Len(cs)])

\* strconv.Atoi: an optional sign, then one digit or more
AtoiDigits(cs, digits) ==
    IF digits # <<>> /\ \A i \in 1..Len(digits) : DigitValue(digits[i]) >= 0
    THEN [n |-> IF cs[1] = "-" THEN 0 - DigitsValue(digits) ELSE DigitsValue(digits),
          ok |-> TRUE]
    ELSE [n |-> 0, ok |-> FALSE]

Atoi(s) ==
    AtoiDigits(Spelling(s),
               IF Spelling(s) # <<>> /\ Spelling(s)[1] \in {"+", "-"}
               THEN Tail(Spelling(s)) ELSE Spelling(s))

getEnvOrDefault(value, defaultValue) == IF value # "" THEN value ELSE defaultValue

\* the struct literal at the top of GetDatabaseConnection, with the port set
EnvConnection(e, port) ==
    [Host      |-> getEnvOrDefault(e.POSTGRES_HOST, "localhost"),
     Port      |-> port,
     Database  |-> "postgres",
     Username  |-> "postgres",
     Password  |-> e.POSTGRES_PASSWORD,
     SSLMode   |-> getEnvOrDefault(e.POSTGRES_SSLMODE, "require"),
     IAMAuth   |-> getEnvOrDefault(e.POSTGRES_IAM_AUTH, "false") = "true",
     AWSRegion |-> getEnvOrDefault(e.AWS_REGION, "us-east-1"),
     IAMToken  |-> ""]

ConfigError(msg) == [c |-> NoConnection, err |-> <<msg>>, from |-> "env"]
Loaded(c) == [c |-> c, err |-> Nil, from |-> "env"]

\* the validation of the required fields, by authentication method
ValidateConnection(e, c) ==
    IF c.IAMAuth
    THEN IF c.AWSRegion = ""
         THEN ConfigError("AWS_REGION environment variable is required for IAM authentication")
         ELSE Loaded([c EXCEPT !.SSLMode = IF c.SSLMode = "disable" THEN "require" ELSE @,
                               !.IAMToken = e.POSTGRES_IAM_TOKEN])
    ELSE IF c.Password = ""
         THEN ConfigError("POSTGRES_PASSWORD environment variable is required for password authentication")
         ELSE Loaded(c)

GetDatabaseConnectionParsed(e, port) ==
    IF ~port.ok THEN ConfigError("invalid POSTGRES_PORT")
    ELSE ValidateConnection(e, EnvConnection(e, port.n))

GetDatabaseConnection(e) ==
    GetDatabaseConnectionParsed(e, Atoi(getEnvOrDefault(e.POSTGRES_PORT, "5432")))

\* fmt.Sprintf("host=%s port=%d user=%s password=%s dbname=%s sslmode=%s", ...)
ConnStr(c, password) ==
    << [k |-> "host", v |-> c.Host], [k |-> "port", v |-> ToString(c.Port)],
       [k |-> "user", v |-> c.Username], [k |-> "password", v |-> password],
       [k |-> "dbname", v |-> c.Database], [k |-> "sslmode", v |-> c.SSLMode] >>

\* the value the driver reads for a key of the connection string
Setting(connStr, key) ==
    LET at == SelectSeq(connStr, LAMBDA kv : kv.k = key)
    IN IF at = <<>> THEN "" ELSE at[Len(at)].v

\* the password of the connection string: the token, or the placeholder
ConnPassword(c) ==
    IF c.IAMAuth
    THEN IF c.IAMToken = "" THEN "PLACEHOLDER_IAM_TOKEN" ELSE c.IAMToken
    ELSE c.Password

\* db.Ping(): the one round trip that opens a connection; outcome is what the
\* network and the server make of it
Ping(connStr, outcome) ==
    [kind |-> "ping", q |-> <<>>, sslmode |-> Setting(connStr, "sslmode"),
     ok |-> outcome = "ok"]

Built(connStr, dry, trips) ==
    [m |-> [made |-> TRUE, dryRun |-> dry, connStr |-> connStr, err |-> Nil], trips |-> trips]

PingFailed(connStr, dry, outcome) ==
    [m |-> [made |-> FALSE, dryRun |-> dry, connStr |-> connStr,
            err |-> <<"failed to ping database", outcome>>],
     trips |-> <<Ping(connStr, outcome)>>]

\* sql.Open only records the connection string; the ping is the first use
NewManagerOpened_AlwaysPing(connStr, dry, outcome) ==
    IF outcome # "ok" THEN PingFailed(connStr, dry, outcome)
    ELSE Built(connStr, dry, <<Ping(connStr, outcome)>>)

NewManagerOpened(connStr, dry, outcome) ==
    IF ~dry
    THEN IF outcome # "ok" THEN PingFailed(connStr, dry, outcome)
         ELSE Built(connStr, dry, <<Ping(connStr, outcome)>>)
    ELSE Built(connStr, dry, <<>>)

NewManager(c, dry, outcome) == NewManagerOpened(ConnStr(c, ConnPassword(c)), dry, outcome)

\* the round trips of a Manager call, as seen on the connection
OnWire(entries, connStr) ==
    LET sent == SelectSeq(entries, LAMBDA e : e.how # "dry")
    IN [i \in 1..Len(sent) |->
           [kind |-> sent[i].how, q |-> sent[i].q,
            sslmode |-> Setting(connStr, "sslmode"), ok |-> sent[i].ok]]

\* ---- inputs
Envs ==
    { [POSTGRES_HOST |-> "", POSTGRES_PORT |-> port, POSTGRES_PASSWORD |-> pw,
       POSTGRES_SSLMODE |-> ssl, POSTGRES_IAM_AUTH |-> iam, AWS_REGION |-> region,
       POSTGRES_IAM_TOKEN |-> token] :
        port \in {"", "+6432", "54x2", "-"}, pw \in {"", "s3cret"},
        ssl \in {"", "disable", "verify-full"}, iam \in {"", "true", "false"},
        region \in {"", "eu-west-1"}, token \in {"", "token"} }

\* DatabaseConnection literals, as the tests of NewManager write them
HandedConnections ==
    { [Host |-> "invalid-host", Port |-> 5432, Database |-> "testdb", Username |-> "testuser",
       Password |-> pw, SSLMode |-> ssl, IAMAuth |-> iam, AWSRegion |-> "",
       IAMToken |-> token] :
        pw \in {"", "testpass"}, ssl \in {"disable", "require"}, iam \in BOOLEAN,
        token \in {"", "token"} }

PingOutcomes == {"ok", "no such host", "password authentication failed"}

ConnInit ==
    /\ db = RdsDB
    /\ dryRun \in BOOLEAN
    /\ Idle
    /\ text = <<>>
    /\ out = NoOut
    /\ env \in Envs
    /\ conn = NoParams
    /\ mgr = NoManager
    /\ wire = <<>>
    /\ stage = "start"
    /\ Alone

mainVars == <<db, dryRun, budget>>

\* configManager.GetDatabaseConnection()
LoadConnection ==
    /\ stage = "start"
    /\ conn' = GetDatabaseConnection(env)
    /\ stage' = IF conn'.err # Nil THEN "failed" ELSE "loaded"
    /\ UNCHANGED <<env, mgr, wire, text, out>>
    /\ UNCHANGED raceVars
    /\ UNCHANGED mainVars
    /\ UNCHANGED opVars
    /\ UNCHANGED syncVars

\* a test builds the DatabaseConnection itself
HandConnection(c) ==
    /\ stage = "start"
    /\ conn' = [c |-> c, err |-> Nil, from |-> "handed"]
    /\ stage' = "loaded"
    /\ UNCHANGED <<env, mgr, wire, text, out>>
    /\ UNCHANGED raceVars
    /\ UNCHANGED mainVars
    /\ UNCHANGED opVars
    /\ UNCHANGED syncVars

Establish(r) ==
    /\ stage = "loaded"
    /\ mgr' = r.m
    /\ wire' = wire \o r.trips
    /\ stage' = IF r.m.made THEN "manager" ELSE "failed"
    /\ UNCHANGED <<env, conn, text, out>>
    /\ UNCHANGED raceVars
    /\ UNCHANGED mainVars
    /\ UNCHANGED opVars
    /\ UNCHANGED syncVars

\* database.NewManager(dbConn, logger, dryRun)
DoNewManager == \E outcome \in PingOutcomes : Establish(NewManager(conn.c, dryRun, outcome))

\* the first Manager method called on the new Manager
FirstCall(r, F) ==
    /\ stage = "manager"
    /\ F \subseteq 1..r.n
    /\ db' = r.db
    /\ budget' = budget - Cardinality(F)
    /\ wire' = wire \o OnWire(r.log, mgr.connStr)
    /\ stage' = "called"
    /\ UNCHANGED <<dryRun, env, conn, mgr, text, out>>
    /\ UNCHANGED raceVars
    /\ UNCHANGED opVars
    /\ UNCHANGED syncVars

FirstCreateUser(user) ==
    \E F \in Faults(1) : FirstCall(CreateUser(Start(db), mgr.dryRun, F, user), F)

FirstCreateGroup(group) ==
    \E F \in Faults(1) : FirstCall(CreateGroup(Start(db), mgr.dryRun, F, group), F)

FirstGrantPrivileges(target, g) ==
    \E F \in Faults(1) :
        FirstCall(GrantPrivileges(Start(db), mgr.dryRun, F, target, g.privs, g.dbs), F)

ConnNext ==
    \/ LoadConnection
    \/ \E c \in HandedConnections : HandConnection(c)
    \/ DoNewManager
    \/ \E user \in OpUserSpecs : FirstCreateUser(user)
    \/ \E group \in OpGroupSpecs : FirstCreateGroup(group)
    \/ \E g \in OpGrants : FirstGrantPrivileges(UserName(1), g)

ConnSpec == ConnInit /\ [][ConnNext]_vars

\* ------------------------------------------------ a server out of reach
\* The Manager of a dry run is built without a ping, and a server can go away
\* after the ping of a real run: every round trip of the calls below fails.  The
\* outage is the state of the server, not a fault in transit, so nothing is taken
\* from the budget.
Outage(trips) == 1..trips

OfflineGroupStep ==
    /\ pc = "groups"
    /\ idx <= Len(config.Groups)
    /\ Land(SyncGroup(Walk, dryRun, Outage(GroupTrips(config.Groups[idx])), config.Groups[idx]),
            {}, "group")

OfflineUserStep ==
    /\ pc = "users"
    /\ idx <= Len(config.Users)
    /\ Land(SyncUser(Walk, dryRun, Outage(UserTrips(config.Users[idx])), config.Users[idx]),
            {}, "user")

OfflineCreateUser(user) ==
    Done("CreateUser", user, CreateUser(Start(db), dryRun, Outage(3), user), {})

OfflineDropUser(username) ==
    Done("DropUser", [Username |-> username],
         DropUser(Start(db), dryRun, Outage(2), username), {})

OfflineCreateGroup(group) ==
    Done("CreateGroup", group, CreateGroup(Start(db), dryRun, Outage(2), group), {})

OfflineNext ==
    \/ \E user \in OpUserSpecs : OfflineCreateUser(user)
    \/ \E username \in OpUserNames : OfflineDropUser(username)
    \/ \E group \in OpGroupSpecs : OfflineCreateGroup(group)
    \/ \E cfg \in Configs : StartSync(cfg)
    \/ OfflineGroupStep
    \/ GroupsDone
    \/ OfflineUserStep
    \/ SyncReturn

OfflineSpec == Init /\ [][OfflineNext]_vars

\* ------------------------------------------------ two Managers at once
\* Two invocations of the tool, each with a Manager of its own on the one server,
\* make the same call.  Each round trip of a call is one step; the server takes
\* the statements one at a time, in the order they arrive.
Managers == {1, 2}

Jobs ==
    { [op |-> "CreateUser", arg |-> user] : user \in OpUserSpecs } \cup
    { [op |-> "CreateGroup", arg |-> group] : group \in OpGroupSpecs }

RaceInit ==
    /\ db \in InitDBs
    /\ dryRun \in BOOLEAN
    /\ Idle
    /\ text = <<>>
    /\ out = NoOut
    /\ Connected
    /\ job \in Jobs
    /\ procs = [p \in Managers |-> [pc |-> "start", s |-> Start(db)]]

\* the Manager's record, on the server as it is now
Now(p) == [procs[p].s EXCEPT !.db = db]

Step(p, at, s) ==
    /\ db' = s.db
    /\ procs' = [procs EXCEPT ![p] = [pc |-> at, s |-> s]]
    /\ UNCHANGED job
    /\ UNCHANGED <<dryRun, budget, text, out>>
    /\ UNCHANGED connVars
    /\ UNCHANGED opVars
    /\ UNCHANGED syncVars

\* exists, err := m.UserExists(user.Username), and the returns that need no
\* further round trip
CheckedUser(p, e) ==
    IF e.err # Nil \/ e.found \/ dryRun
    THEN Step(p, "returned", CreateUserChecked(e, dryRun, {}, job.arg))
    ELSE Step(p, "checked", e)

CheckUser(p) ==
    /\ job.op = "CreateUser"
    /\ procs[p].pc = "start"
    /\ CheckedUser(p, UserExists(Now(p), {}, job.arg.Username))

\* m.db.Exec(query) of the CREATE USER
ExecutedUser(p, x) ==
    IF x.err # Nil \/ job.arg.AuthMethod # "iam"
    THEN Step(p, "returned", CreateUserExecuted(x, dryRun, {}, job.arg))
    ELSE Step(p, "created", x)

ExecCreateUser(p) ==
    /\ job.op = "CreateUser"
    /\ procs[p].pc = "checked"
    /\ ExecutedUser(p, Exec(Now(p), {}, buildCreateUserQuery(job.arg)))

\* m.grantRDSIAMRole(user.Username)
GrantRdsIam(p) ==
    /\ job.op = "CreateUser"
    /\ procs[p].pc = "created"
    /\ Step(p, "returned", CreateUserExecuted(Now(p), dryRun, {}, job.arg))

\* exists, err := m.GroupExists(group.Name)
CheckedGroup(p, e) ==
    IF e.err # Nil \/ e.found \/ dryRun
    THEN Step(p, "returned", CreateGroupChecked(e, dryRun, {}, job.arg))
    ELSE Step(p, "checked", e)

CheckGroup(p) ==
    /\ job.op = "CreateGroup"
    /\ procs[p].pc = "start"
    /\ CheckedGroup(p, GroupExists(Now(p), {}, job.arg.Name))

\* m.db.Exec(query) of the CREATE ROLE
ExecCreateRole(p) ==
    /\ job.op = "CreateGroup"
    /\ procs[p].pc = "checked"
    /\ Step(p, "returned", CreateGroupChecked(Now(p), dryRun, {}, job.arg))

RaceNext ==
    \E p \in Managers :
        \/ CheckUser(p)
        \/ ExecCreateUser(p)
        \/ GrantRdsIam(p)
        \/ CheckGroup(p)
        \/ ExecCreateRole(p)

RaceSpec == RaceInit /\ [][RaceNext]_vars

\* ------------------------------------------------------------ properties
Walking == pc \in {"groups", "users"}
SyncDone == pc = "done"

Targets(cs) == [i \in 1..Len(cs) |-> cs[i].target]
CallsOf(op) == SelectSeq(calls, LAMBDA c : c.op = op)
CallsFor(name) == SelectSeq(calls, LAMBDA c : c.target = name)
GroupNames == [i \in 1..Len(config.Groups) |-> config.Groups[i].Name]
EnabledUsers == SelectSeq(config.Users, LAMBDA u : u.Enabled)
EnabledUserNames == [i \in 1..Len(EnabledUsers) |-> EnabledUsers[i].Username]
Failed(entries) == SelectSeq(entries, LAMBDA e : ~e.ok)
InSeq(x, sq) == \E i \in 1..Len(sq) : sq[i] = x

\* the loop bodies still to run
Remaining ==
    IF pc = "groups" THEN (Len(config.Groups) + 1 - idx) + Len(config.Users) + 2
    ELSE IF pc = "users" THEN (Len(config.Users) + 1 - idx) + 1
    ELSE 0

\* one of the four steps of the walk has its loop condition satisfied
C1_CanStep ==
    /\ pc = "groups" => idx \in 1..(Len(config.Groups) + 1)
    /\ pc = "users" => idx \in 1..(Len(config.Users) + 1)

C1_Returned ==
    SyncDone =>
        /\ ret.returned
        /\ ret.err = Nil
        /\ Targets(CallsOf("CreateGroup")) = GroupNames
        /\ Targets(CallsOf("CreateUser")) = EnabledUserNames
        /\ Len(result.Errors) = Len(Failed(log))

\* C1: whatever the configuration and whichever statements fail, SyncConfiguration
\* never stops inside the walk, every step brings it nearer to its return, and it
\* returns a result and a nil error after calling CreateGroup once for every group
\* and CreateUser once for every enabled user, in order; every failed statement is
\* one entry of result.Errors.
C1_SyncAlwaysReturns ==
    /\ [](C1_Returned /\ C1_CanStep /\ Remaining >= 0)
    /\ [][Walking => Remaining' < Remaining]_vars

C1_Witness ==
    /\ SyncDone
    /\ \E j \in 1..Len(log) : ~log[j].ok /\ log[j].phase = "group" /\ log[j].idx = 1
    /\ Len(result.GroupsCreated) >= 1
    /\ Len(result.UsersCreated) >= 1
    /\ Len(result.Errors) >= 2

\* q is a GRANT ... ON DATABASE of the group whose privilege keyword PostgreSQL rejects
BadGrantOf(q, group) ==
    \E p \in 1..Len(group.Privileges), d \in 1..Len(group.Databases) :
        /\ group.Privileges[p] \notin DatabasePrivileges
        /\ q = grantPrivQuery(group.Privileges[p], group.Databases[d], group.Name)

\* the statements that failed are privilege grants of group k, rejected for their keyword
OnlyGrantsOfGroupFail(k) ==
    /\ Failed(log) # <<>>
    /\ \A j \in 1..Len(log) :
          ~log[j].ok => /\ log[j].phase = "group"
                        /\ log[j].idx = k
                        /\ BadGrantOf(log[j].q, config.Groups[k])

\* C2: when a non-dry-run walk is over and the only statements that failed are the
\* privilege grants of one group k (its keyword is invalid), every other group
\* exists on the server and is listed in GroupsCreated, and Errors holds exactly
\* one entry, which names group k.
C2_PartialFailureIsolation ==
    SyncDone /\ ~dryRun =>
        \A k \in 1..Len(config.Groups) :
            OnlyGrantsOfGroupFail(k) =>
                /\ \A i \in 1..Len(config.Groups) :
                      i # k => /\ GroupNames[i] \in DOMAIN db.roles
                               /\ InSeq(GroupNames[i], result.GroupsCreated)
                /\ Len(result.Errors) = 1
                /\ result.Errors[1].target = GroupNames[k]
                /\ result.Errors[1].op = "grant privileges to group"

C2_Witness ==
    /\ SyncDone /\ ~dryRun
    /\ Len(config.Groups) = 2
    /\ OnlyGrantsOfGroupFail(1)
    /\ GroupNames[2] \notin DOMAIN pre.roles
    /\ GroupNames[2] \in DOMAIN db.roles

\* what the server holds about one principal
Principal(d, name) ==
    [attrs   |-> IF name \in DOMAIN d.roles THEN <<d.roles[name]>> ELSE <<>>,
     members |-> { m \in d.members : m[1] = name },
     privs   |-> { p \in d.privs : p[1] = name }]

Untouched(i, name) ==
    /\ CallsFor(name) = <<>>
    /\ ~InSeq(name, result.UsersCreated)
    /\ \A e \in 1..Len(result.Errors) : result.Errors[e].target # name
    /\ \A j \in 1..Len(log) : ~(log[j].phase = "user" /\ log[j].idx = i)
    /\ Principal(db, name) = Principal(pre, name)

\* C3 as stated: during and after a walk, in either mode, a user with
\* enabled = false has had no Manager method called for its name and no statement
\* sent for it, is absent from UsersCreated and from Errors, and the principal of
\* that name is as it was when the walk began.
C3_AnyDisabledUserUntouched ==
    pc # "idle" =>
        \A i \in 1..Len(config.Users) :
            ~config.Users[i].Enabled => Untouched(i, config.Users[i].Username)

\* C3: the same, for the disabled users whose name is not also the name of a group
\* of the configuration (the group loop creates and grants to that name).
C3_DisabledUserSkipped ==
    pc # "idle" =>
        \A i \in 1..Len(config.Users) :
            ~config.Users[i].Enabled /\ ~InSeq(config.Users[i].Username, GroupNames)
                => Untouched(i, config.Users[i].Username)

C3_Witness ==
    /\ SyncDone
    /\ \E i \in 1..Len(config.Users) :
          /\ ~config.Users[i].Enabled
          /\ ~InSeq(config.Users[i].Username, GroupNames)
          /\ Principal(pre, config.Users[i].Username).members # {}
          /\ Untouched(i, config.Users[i].Username)
    /\ CallsOf("CreateUser") # <<>>
    /\ db # pre

Sent(entries, how) == SelectSeq(entries, LAMBDA e : e.how = how)
Statements(entries) == [i \in 1..Len(entries) |-> entries[i].q]

MembershipOp == last.op \in {"AddUserToGroup", "RemoveUserFromGroup"}
GroupMissing == last.arg.Group \notin DOMAIN last.pre.roles

MembershipErrors(name) ==
    SelectSeq(result.Errors, LAMBDA e : e.op = "add user to group" /\ e.target = name)

\* every membership step of the user was tried and failed, after a successful CreateUser
OnlyMembershipsFailed(user) ==
    /\ user.Enabled
    /\ Len(user.Groups) >= 1
    /\ Len(MembershipErrors(user.Username)) = Len(user.Groups)
    /\ \A e \in 1..Len(result.Errors) :
          result.Errors[e].target = user.Username => result.Errors[e].op # "create user"

C4_SyncKeepsUser ==
    pc # "idle" =>
        \A i \in 1..Len(config.Users) :
            OnlyMembershipsFailed(config.Users[i]) =>
                /\ InSeq(config.Users[i].Username, result.UsersCreated)
                /\ config.Users[i].Username \in DOMAIN db.roles

\* C4 as stated: AddUserToGroup and RemoveUserFromGroup send no existence query and
\* return an error whenever the group does not exist; a user whose memberships all
\* failed is still in UsersCreated and on the server.
C4_MissingGroupAlwaysAnError ==
    /\ MembershipOp => /\ Sent(last.log, "query") = <<>>
                       /\ GroupMissing => last.err # Nil
    /\ C4_SyncKeepsUser

\* C4: AddUserToGroup and RemoveUserFromGroup send no existence query in either
\* mode; outside dry-run they send exactly their one statement and return an error
\* when the group does not exist, in dry-run they send nothing and return nil; a
\* user whose memberships all failed is still in UsersCreated and on the server.
C4_MembershipAsymmetry ==
    /\ MembershipOp =>
          /\ Sent(last.log, "query") = <<>>
          /\ ~last.dry => /\ Len(Sent(last.log, "exec")) = 1
                          /\ GroupMissing => last.err # Nil /\ last.post = last.pre
          /\ last.dry => Sent(last.log, "exec") = <<>> /\ last.err = Nil
    /\ C4_SyncKeepsUser

C4_Witness ==
    /\ last.op = "AddUserToGroup"
    /\ ~last.dry
    /\ last.faults = {}
    /\ GroupMissing
    /\ last.arg.Username \in DOMAIN last.pre.roles
    /\ last.err # Nil

CreateOp == last.op \in {"CreateUser", "CreateGroup"}

\* two calls in a row with one spec, neither in dry-run nor hit by a connection
\* fault, the first of which created the principal
CreatedThenRepeated ==
    /\ nOps = 2
    /\ CreateOp
    /\ prev.op = last.op
    /\ prev.arg = last.arg
    /\ ~prev.dry /\ ~last.dry
    /\ prev.faults = {} /\ last.faults = {}
    /\ prev.err = Nil
    /\ Len(Sent(prev.log, "exec")) >= 1

\* C5: when CreateUser (or CreateGroup) is called twice in a row with one spec and
\* the first call created the principal, the second call sends no statement besides
\* its existence query, returns nil and leaves the server as the first call left it.
C5_SecondCreateIsNoOp ==
    CreatedThenRepeated =>
        /\ last.err = Nil
        /\ Sent(last.log, "exec") = <<>>
        /\ last.post = prev.post

\* C6: after a CreateUser outside dry-run has returned nil, UserExists for that
\* username answers true.
C6_CreatedUserExists ==
    last.op = "CreateUser" /\ ~last.dry /\ last.err = Nil
        => UserExists(Start(last.post), {}, last.arg.Username).found

Ran == last.op # "none"
ExistenceChecked == last.op \in {"CreateUser", "DropUser", "CreateGroup"}

C7_SyncDryRun ==
    dryRun /\ pc # "idle" =>
        /\ db = pre
        /\ Sent(log, "exec") = <<>>
        /\ SyncDone => ret.err = Nil

\* C7 as stated: in dry-run every mutating operation leaves the server as it was
\* and returns nil.
C7_DryRunAlwaysNil ==
    /\ Ran /\ last.dry => last.post = last.pre /\ last.err = Nil
    /\ C7_SyncDryRun

\* C7: in dry-run every mutating operation executes no statement and leaves the
\* server as it was; it returns nil, except that CreateUser, DropUser and
\* CreateGroup return an error when their existence query fails. SyncConfiguration
\* in dry-run leaves the server as it was and returns nil.
C7_DryRunNonMutation ==
    /\ Ran /\ last.dry =>
          /\ last.post = last.pre
          /\ Sent(last.log, "exec") = <<>>
          /\ last.err # Nil <=> ExistenceChecked /\ Failed(Sent(last.log, "query")) # <<>>
    /\ C7_SyncDryRun

C7_Witness ==
    /\ last.op = "DropUser"
    /\ last.dry
    /\ PgUserRow(last.pre, last.arg.Username)
    /\ Statements(Sent(last.log, "dry")) = <<dropUserQuery(last.arg.Username)>>
    /\ last.post = last.pre

\* the operation of the record run again from db, without connection faults
Perform(op, arg, d, dry) ==
    CASE op = "CreateUser" -> CreateUser(Start(d), dry, {}, arg)
      [] op = "DropUser" -> DropUser(Start(d), dry, {}, arg.Username)
      [] op = "CreateGroup" -> CreateGroup(Start(d), dry, {}, arg)
      [] op = "GrantPrivileges" -> GrantPrivileges(Start(d), dry, {}, arg.target, arg.privs, arg.dbs)
      [] op = "RevokePrivileges" -> RevokePrivileges(Start(d), dry, {}, arg.target, arg.privs, arg.dbs)
      [] op = "AddUserToGroup" -> AddUserToGroup(Start(d), dry, {}, arg.Username, arg.Group)
      [] op = "RemoveUserFromGroup" -> RemoveUserFromGroup(Start(d), dry, {}, arg.Username, arg.Group)

\* C8: when an operation ran in dry-run without a failure, and its run outside
\* dry-run from the same server state has no failing statement, the statements the
\* dry run logged are the statements the real run executes, in order.
C8_DryRunPreviewComplete ==
    /\ Ran /\ last.dry /\ last.faults = {}
    /\ Failed(Perform(last.op, last.arg, last.pre, FALSE).log) = <<>>
    => Statements(Sent(last.log, "dry"))
           = Statements(Sent(Perform(last.op, last.arg, last.pre, FALSE).log, "exec"))

\* the position of a statement in the body of its loop
StepRank(e) ==
    IF e.how = "query" THEN 1
    ELSE IF e.q[1] \in {KW("CREATE USER"), KW("CREATE ROLE")} THEN 2
    ELSE IF Len(e.q) = 4 /\ e.q[2] = RdsIam THEN 3
    ELSE IF Len(e.q) = 4 THEN 4
    ELSE 5

PhaseRank(e) == IF e.phase = "group" THEN 0 ELSE 1

Before(a, b) ==
    \/ PhaseRank(a) < PhaseRank(b)
    \/ PhaseRank(a) = PhaseRank(b) /\ a.idx < b.idx
    \/ PhaseRank(a) = PhaseRank(b) /\ a.idx = b.idx /\ StepRank(a) <= StepRank(b)

ExistsQueryOf(e) ==
    IF e.phase = "group" THEN groupExistsQuery(config.Groups[e.idx].Name)
    ELSE userExistsQuery(config.Users[e.idx].Username)

MembershipsOf(i) ==
    Statements(SelectSeq(log, LAMBDA e : e.phase = "user" /\ e.idx = i /\ StepRank(e) = 4))

DeclaredMemberships(user) ==
    [k \in 1..Len(user.Groups) |-> addMemberQuery(user.Username, user.Groups[k])]

\* C9: in the statements of a walk, those of the groups come before those of the
\* users, those of an earlier entry of the configuration before those of a later
\* one, and within one entry the existence query, the creation, the rds_iam grant,
\* the memberships and the privilege grants come in that order; the statements of
\* an entry open with the existence query of that entry, and a user's memberships
\* are all sent, in the order declared, or not at all.
C9_PhaseOrdering ==
    pc # "idle" =>
        /\ \A j, k \in 1..Len(log) : j < k => Before(log[j], log[k])
        /\ \A j \in 1..Len(log) :
              (j = 1 \/ log[j - 1].phase # log[j].phase \/ log[j - 1].idx # log[j].idx)
                  => log[j].q = ExistsQueryOf(log[j])
        /\ \A i \in 1..Len(config.Users) :
              MembershipsOf(i) \in {<<>>, DeclaredMemberships(config.Users[i])}

C9_Witness ==
    /\ SyncDone
    /\ \E g, a, b, c \in 1..Len(log) :
          /\ log[g].phase = "group" /\ StepRank(log[g]) = 5
          /\ log[a].phase = "user" /\ StepRank(log[a]) = 2
          /\ log[b].phase = "user" /\ StepRank(log[b]) = 4 /\ log[b].idx = log[a].idx
          /\ log[c].phase = "user" /\ StepRank(log[c]) = 5 /\ log[c].idx = log[a].idx

ExecutedCreate(keyword, name) ==
    \E j \in 1..Len(log) :
        /\ log[j].how = "exec" /\ log[j].ok
        /\ log[j].q[1] = KW(keyword)
        /\ log[j].q[2] = quoteIdentifier(name)

\* C10: when the walk is over, every name in UsersCreated had its CREATE USER
\* executed during the walk and every name in GroupsCreated its CREATE ROLE.
C10_CreatedMeansCreated ==
    SyncDone =>
        /\ \A i \in 1..Len(result.UsersCreated) :
              ExecutedCreate("CREATE USER", result.UsersCreated[i])
        /\ \A i \in 1..Len(result.GroupsCreated) :
              ExecutedCreate("CREATE ROLE", result.GroupsCreated[i])

\* the server already holds what the entry declares
Holds(d, name, groups, privileges, databases) ==
    /\ name \in DOMAIN d.roles
    /\ \A g \in 1..Len(groups) : <<name, groups[g]>> \in d.members
    /\ \A x \in 1..Len(databases), p \in 1..Len(privileges) :
          <<name, databases[x], privileges[p]>> \in d.privs

Converged(d, cfg) ==
    /\ \A i \in 1..Len(cfg.Groups) :
          Holds(d, cfg.Groups[i].Name, <<>>, cfg.Groups[i].Privileges, cfg.Groups[i].Databases)
    /\ \A i \in 1..Len(cfg.Users) :
          cfg.Users[i].Enabled =>
              /\ PgUserRow(d, cfg.Users[i].Username)
              /\ Holds(d, cfg.Users[i].Username, cfg.Users[i].Groups,
                       cfg.Users[i].Privileges, cfg.Users[i].Databases)

\* C11: a walk outside dry-run over a server that already holds every declared
\* group, enabled user, membership and database privilege executes no statement.
C11_ConvergedSyncExecutesNothing ==
    SyncDone /\ ~dryRun /\ Converged(pre, config) => Sent(log, "exec") = <<>>

\* the fixed words of the format strings the statements are built from
FormatWords ==
    { KW("CREATE USER"), KW("WITH PASSWORD"), KW("LOGIN"), KW("NOLOGIN"),
      KW("CONNECTION LIMIT"), KW("DROP USER"), KW("CREATE ROLE"), KW("INHERIT"),
      KW("NOINHERIT"), KW("GRANT"), KW("REVOKE"), KW("ON DATABASE"), KW("TO"),
      KW("FROM"), RdsIam }

\* the token is a format word, a %d number, or the output of quoteIdentifier or of
\* escapeString between its single quotes
Routed(tok) ==
    \/ tok \in FormatWords
    \/ \E n \in ConnLimits : tok = FormatInt(n)
    \/ tok # <<>> /\ Head(tok) = DQ /\ ParseDelimited(tok, DQ).ok
    \/ tok # <<>> /\ Head(tok) = SQ /\ ParseLiteral(tok).ok

AllRouted(entries) ==
    \A j \in 1..Len(entries) :
        entries[j].how # "query" => \A t \in 1..Len(entries[j].q) : Routed(entries[j].q[t])

\* C12: every piece of every statement a Manager method builds, executed or only
\* logged, is a fixed word of its format string or a value that went through
\* quoteIdentifier or escapeString.
C12_EveryValueRouted == AllRouted(last.log) /\ AllRouted(log)

Count(s, ch) == Cardinality({ i \in 1..Len(s) : s[i] = ch })
Body(s) == SubSeq(s, 2, Len(s) - 1)

\* C13: quoteIdentifier(s) is s between two double quotes with every embedded
\* double quote doubled, and escapeString(s) is s with every embedded single quote
\* doubled: the output has one more character per embedded quote, and undoubling
\* it (for quoteIdentifier, what stands between the two outer quotes) meets no
\* single delimiter and gives back s.
C13_QuotingDoublesDelimiters ==
    /\ out.op = "quoteIdentifier" =>
          /\ Len(out.v) = Len(text) + Count(text, DQ) + 2
          /\ Head(out.v) = DQ /\ out.v[Len(out.v)] = DQ
          /\ UnDouble(Body(out.v), DQ) = [ok |-> TRUE, v |-> text]
    /\ out.op = "escapeString" =>
          /\ Len(out.v) = Len(text) + Count(text, SQ)
          /\ UnDouble(out.v, SQ) = [ok |-> TRUE, v |-> text]

C13_Witness ==
    /\ text = <<"a", DQ, DQ, SQ>>
    /\ out = [op |-> "quoteIdentifier", v |-> <<DQ, "a", DQ, DQ, DQ, DQ, SQ, DQ>>]

PrivilegeOp == last.op \in {"GrantPrivileges", "RevokePrivileges"}

PairStatement(d, p) ==
    IF last.op = "GrantPrivileges"
    THEN grantPrivQuery(last.arg.privs[p], last.arg.dbs[d], last.arg.target)
    ELSE revokePrivQuery(last.arg.privs[p], last.arg.dbs[d], last.arg.target)

\* the server after the statements of the entries that succeeded, in order
RECURSIVE Replay(_, _)
Replay(d, entries) ==
    IF entries = <<>> THEN d
    ELSE Replay(IF Head(entries).ok THEN ExecSQL(d, Head(entries).q).db ELSE d, Tail(entries))

\* C14: outside dry-run GrantPrivileges and RevokePrivileges execute the statement
\* of pair (d, p) at position (d - 1) * |P| + p, databases outermost, as long as
\* no statement has failed; the first failure is the last statement sent and is
\* returned as the error; nil is returned only after every pair succeeded; and
\* the server is left with every statement that succeeded applied.
C14_PrivilegeLoop ==
    PrivilegeOp /\ ~last.dry =>
        /\ Len(last.log) <= Len(last.arg.dbs) * Len(last.arg.privs)
        /\ \A k \in 1..Len(last.log) : last.log[k].how = "exec"
        /\ \A d \in 1..Len(last.arg.dbs), p \in 1..Len(last.arg.privs) :
              (d - 1) * Len(last.arg.privs) + p <= Len(last.log)
                  => last.log[(d - 1) * Len(last.arg.privs) + p].q = PairStatement(d, p)
        /\ \A k \in 1..(Len(last.log) - 1) : last.log[k].ok
        /\ last.err # Nil <=> Failed(last.log) # <<>>
        /\ last.err = Nil => Len(last.log) = Len(last.arg.dbs) * Len(last.arg.privs)
        /\ last.post = Replay(last.pre, last.log)

C14_Witness ==
    /\ last.op = "GrantPrivileges"
    /\ ~last.dry
    /\ last.faults = {}
    /\ Len(last.arg.dbs) = 2
    /\ Len(last.log) = 3
    /\ last.err # Nil
    /\ <<last.arg.target, AppDb, Create>> \in last.post.privs
    /\ <<last.arg.target, AppDb, Create>> \notin last.pre.privs

\* a CreateUser outside dry-run for an iam user its existence check did not find
IamCreate ==
    /\ last.op = "CreateUser"
    /\ ~last.dry
    /\ last.arg.AuthMethod = "iam"
    /\ Len(last.log) >= 1 /\ last.log[1].ok
    /\ ~PgUserRow(last.pre, last.arg.Username)

HasPasswordClause(q) ==
    \E t \in 1..Len(q) : q[t] = KW("WITH PASSWORD") \/ (q[t] # <<>> /\ Head(q[t]) = SQ)

Executions == Sent(last.log, "exec")

\* C15: CreateUser outside dry-run for an iam user that UserExists does not find
\* executes a CREATE USER for that name without a password clause; when it
\* succeeds exactly one more statement follows, GRANT rds_iam TO the user, and
\* CreateUser returns an error exactly when one of the two statements failed.
C15_IamCreate ==
    IamCreate =>
        /\ Len(Executions) \in {1, 2}
        /\ Executions[1].q[1] = KW("CREATE USER")
        /\ Executions[1].q[2] = quoteIdentifier(last.arg.Username)
        /\ ~HasPasswordClause(Executions[1].q)
        /\ Len(Executions) = 2 <=> Executions[1].ok
        /\ Len(Executions) = 2 => Executions[2].q = grantRDSIAMQuery(last.arg.Username)
        /\ last.err # Nil <=> Failed(Executions) # <<>>

C15_Witness ==
    /\ IamCreate
    /\ last.arg.Password # <<>>
    /\ Len(Executions) = 2
    /\ ~Executions[2].ok
    /\ last.err # Nil
    /\ last.arg.Username \in DOMAIN last.post.roles

\* a DropUser outside dry-run, returning nil, of the user the call before it created
DroppedAfterCreate ==
    /\ nOps = 2
    /\ prev.op = "CreateUser" /\ ~prev.dry /\ prev.err = Nil
    /\ Len(Sent(prev.log, "exec")) >= 1
    /\ last.op = "DropUser" /\ ~last.dry /\ last.err = Nil
    /\ last.arg.Username = prev.arg.Username

\* C16: DropUser of a user its existence check does not find sends no statement
\* and returns nil; and after CreateUser created a principal, a DropUser of that
\* name outside dry-run that returns nil leaves no role of that name on the
\* server, and UserExists answers false.
C16_DropUserRemovesPrincipal ==
    /\ last.op = "DropUser" /\ Failed(last.log) = <<>> /\ ~PgUserRow(last.pre, last.arg.Username)
          => /\ last.err = Nil
             /\ Len(last.log) = 1
             /\ last.post = last.pre
    /\ DroppedAfterCreate
          => /\ last.arg.Username \notin DOMAIN last.post.roles
             /\ ~UserExists(Start(last.post), {}, last.arg.Username).found

\* ---- the start of a command
\* NewManager has returned
NewManagerRan == mgr.connStr # <<>>

Pings == SelectSeq(wire, LAMBDA t : t.kind = "ping")

\* what the caller supplied: the environment, or the DatabaseConnection handed over
Given ==
    IF conn.from = "env"
    THEN [iamAuth |-> env.POSTGRES_IAM_AUTH = "true", password |-> env.POSTGRES_PASSWORD,
          sslmode |-> env.POSTGRES_SSLMODE]
    ELSE [iamAuth |-> conn.c.IAMAuth, password |-> conn.c.Password, sslmode |-> conn.c.SSLMode]

\* the start of the command is over: a configuration error, or NewManager returned
Started == stage \in {"failed", "manager", "called"}

\* C17: with iamAuth set, the sslmode of the connection string NewManager builds,
\* and of every round trip made on the connection, is never "disable", whether
\* the parameters were read by GetDatabaseConnection or handed to NewManager.
C17_IamNeverDisablesTls ==
    NewManagerRan /\ Given.iamAuth =>
        /\ Setting(mgr.connStr, "sslmode") # "disable"
        /\ \A i \in 1..Len(wire) : wire[i].sslmode # "disable"

\* C18: with iamAuth unset and an empty password, the start of the command ends
\* in an error, no Manager is built and nothing is sent, whether the parameters
\* were read by GetDatabaseConnection or handed to NewManager.
C18_EmptyPasswordFailsBeforeConnecting ==
    Started /\ ~Given.iamAuth /\ Given.password = "" =>
        /\ conn.err # Nil \/ mgr.err # Nil
        /\ ~mgr.made
        /\ mgr.connStr = <<>>
        /\ wire = <<>>

\* C19: with POSTGRES_IAM_AUTH=true and AWS_REGION unset or empty,
\* GetDatabaseConnection returns an error, and nothing is sent.
C19_MissingRegionFailsBeforeConnecting ==
    conn.from = "env" /\ env.POSTGRES_IAM_AUTH = "true" /\ env.AWS_REGION = "" =>
        /\ conn.err # Nil
        /\ stage = "failed"
        /\ mgr = NoManager
        /\ wire = <<>>

ExistenceQueries ==
    { userExistsQuery(u.Username) : u \in OpUserSpecs } \cup
    { groupExistsQuery(g.Name) : g \in OpGroupSpecs }

\* C20: once NewManager has returned, the connection has carried one ping if
\* dryRun is false and none if it is true.  Outside dry-run the ping is the first
\* round trip, and a failed ping means an error, no Manager and nothing more
\* sent.  In dry-run a Manager is returned with nothing sent, and the first round
\* trip made afterwards is the existence query of a Manager method.
C20_PingIffNotDryRun ==
    NewManagerRan =>
        /\ Len(Pings) = IF dryRun THEN 0 ELSE 1
        /\ mgr.dryRun = dryRun
        /\ ~dryRun =>
              /\ wire[1].kind = "ping"
              /\ mgr.made <=> wire[1].ok
              /\ mgr.made <=> mgr.err = Nil
              /\ ~mgr.made => stage = "failed" /\ Len(wire) = 1
        /\ dryRun =>
              /\ mgr.made /\ mgr.err = Nil
              /\ stage = "manager" => wire = <<>>
              /\ wire # <<>> => wire[1].kind = "query" /\ wire[1].q \in ExistenceQueries

\* a dry run against a host that cannot be reached: NewManager returned a Manager,
\* and the existence query of the first call is the first round trip, and fails
C20_Witness ==
    /\ dryRun
    /\ mgr.made
    /\ stage = "called"
    /\ Len(wire) = 1
    /\ wire[1].kind = "query"
    /\ ~wire[1].ok

\* ---- the error handling of the walk
\* the loop bodies that have run
GroupsWalked ==
    IF pc = "groups" THEN idx - 1 ELSE IF pc \in {"users", "done"} THEN Len(config.Groups) ELSE 0

UsersWalked ==
    IF pc = "users" THEN idx - 1 ELSE IF pc = "done" THEN Len(config.Users) ELSE 0

GroupLog(i) == SelectSeq(log, LAMBDA e : e.phase = "group" /\ e.idx = i)
UserLog(i) == SelectSeq(log, LAMBDA e : e.phase = "user" /\ e.idx = i)

GroupOps == {"create group", "grant privileges to group"}
UserOps == {"create user", "add user to group", "grant privileges to user"}

ErrorsFor(name, ops) ==
    SelectSeq(result.Errors, LAMBDA e : e.target = name /\ e.op \in ops)

\* a round trip of CreateUser (existence query, CREATE USER, rds_iam grant) of the
\* i-th user failed
CreateUserFailed(i) ==
    \E k \in 1..Len(UserLog(i)) : ~UserLog(i)[k].ok /\ StepRank(UserLog(i)[k]) <= 3

EnabledUpTo(n) == SelectSeq(SubSeq(config.Users, 1, n), LAMBDA u : u.Enabled)

\* C21: when CreateUser failed for an enabled user of the walk, Errors holds one
\* entry for that user, a "create user" entry; the user is not in UsersCreated;
\* CreateUser is the last Manager method called for it and no membership or
\* privilege statement was sent or logged for it; and CreateUser has been called
\* for every enabled user the walk has passed, in configuration order.
C21_CreateUserFailureSkipsUser ==
    /\ \A i \in 1..UsersWalked :
          config.Users[i].Enabled /\ CreateUserFailed(i) =>
              /\ Len(ErrorsFor(config.Users[i].Username, UserOps)) = 1
              /\ ErrorsFor(config.Users[i].Username, UserOps)[1].op = "create user"
              /\ ~InSeq(config.Users[i].Username, result.UsersCreated)
              /\ CallsFor(config.Users[i].Username)
                     [Len(CallsFor(config.Users[i].Username))].op = "CreateUser"
              /\ \A k \in 1..Len(UserLog(i)) : StepRank(UserLog(i)[k]) <= 3
    /\ Len(CallsOf("CreateUser")) = Len(EnabledUpTo(UsersWalked))
    /\ \A k \in 1..Len(CallsOf("CreateUser")) :
          CallsOf("CreateUser")[k].target = EnabledUpTo(UsersWalked)[k].Username

\* the first of two enabled users failed to be created, the second was created
C21_Witness ==
    /\ SyncDone /\ ~dryRun
    /\ Len(config.Users) = 2
    /\ config.Users[1].Enabled /\ config.Users[2].Enabled
    /\ CreateUserFailed(1)
    /\ Len(config.Users[1].Groups) >= 1
    /\ result.UsersCreated = <<config.Users[2].Username>>
    /\ config.Users[2].Username \notin DOMAIN pre.roles
    /\ config.Users[2].Username \in DOMAIN db.roles

\* a round trip of CreateGroup (existence query, CREATE ROLE) of the i-th group failed
CreateGroupFailed(i) ==
    \E k \in 1..Len(GroupLog(i)) : ~GroupLog(i)[k].ok /\ StepRank(GroupLog(i)[k]) <= 2

\* CreateGroup returned nil for the i-th group and a GRANT of its privileges failed
GroupGrantFailed(i) ==
    /\ ~CreateGroupFailed(i)
    /\ \E k \in 1..Len(GroupLog(i)) : ~GroupLog(i)[k].ok /\ StepRank(GroupLog(i)[k]) = 5

GroupCalls(name) ==
    SelectSeq(calls, LAMBDA c : c.target = name /\ c.op \in {"CreateGroup", "GrantPrivileges"})

\* C22: for a group the walk has passed, when CreateGroup failed, Errors holds one
\* entry for the group, a "create group" entry, the group is not in GroupsCreated
\* and GrantPrivileges was not called and no GRANT sent for it; when CreateGroup
\* returned nil and a GRANT failed, Errors holds one entry for the group, a
\* "grant privileges to group" entry, the group is in GroupsCreated and its role
\* is on the server; and CreateGroup has been called for every group passed, in
\* configuration order.
C22_GroupFailureHandling ==
    /\ \A i \in 1..GroupsWalked :
          /\ CreateGroupFailed(i) =>
                /\ Len(ErrorsFor(GroupNames[i], GroupOps)) = 1
                /\ ErrorsFor(GroupNames[i], GroupOps)[1].op = "create group"
                /\ ~InSeq(GroupNames[i], result.GroupsCreated)
                /\ Len(GroupCalls(GroupNames[i])) = 1
                /\ GroupCalls(GroupNames[i])[1].op = "CreateGroup"
                /\ \A k \in 1..Len(GroupLog(i)) : StepRank(GroupLog(i)[k]) <= 2
          /\ GroupGrantFailed(i) =>
                /\ Len(ErrorsFor(GroupNames[i], GroupOps)) = 1
                /\ ErrorsFor(GroupNames[i], GroupOps)[1].op = "grant privileges to group"
                /\ InSeq(GroupNames[i], result.GroupsCreated)
                /\ GroupNames[i] \in DOMAIN db.roles
    /\ Targets(CallsOf("CreateGroup")) = SubSeq(GroupNames, 1, GroupsWalked)

\* the first group failed to be created; the second was created and a GRANT of
\* its privileges was rejected
C22_Witness ==
    /\ SyncDone /\ ~dryRun
    /\ Len(config.Groups) = 2
    /\ CreateGroupFailed(1)
    /\ GroupGrantFailed(2)
    /\ GroupNames[2] \notin DOMAIN pre.roles
    /\ result.GroupsCreated = <<GroupNames[2]>>
    /\ Len(result.Errors) >= 2

\* the membership statements of the i-th user, sent or logged, and its privilege ones
MembershipLog(i) == SelectSeq(UserLog(i), LAMBDA e : StepRank(e) = 4)
PrivilegeLog(i) == SelectSeq(UserLog(i), LAMBDA e : StepRank(e) = 5)

MembershipCalls(name) ==
    SelectSeq(calls, LAMBDA c : c.target = name /\ c.op = "AddUserToGroup")

GrantCalls(name) ==
    SelectSeq(calls, LAMBDA c : c.target = name /\ c.op = "GrantPrivileges")

\* C23: for an enabled user the walk has passed and whose CreateUser returned nil,
\* AddUserToGroup was called once for each declared group name, in order, and its
\* statement sent or logged, whether or not an earlier one failed; Errors holds
\* one "add user to group" entry for each name whose statement failed and none
\* for the others; and GrantPrivileges was called once for the user.
C23_MembershipsIndependent ==
    \A i \in 1..UsersWalked :
        config.Users[i].Enabled /\ ~CreateUserFailed(i) =>
            /\ [k \in 1..Len(MembershipCalls(config.Users[i].Username)) |->
                   MembershipCalls(config.Users[i].Username)[k].arg] = config.Users[i].Groups
            /\ Statements(MembershipLog(i)) = DeclaredMemberships(config.Users[i])
            /\ Len(MembershipErrors(config.Users[i].Username))
                   = Len(Failed(MembershipLog(i)))
            /\ \A k \in 1..Len(config.Users[i].Groups) :
                  ~MembershipLog(i)[k].ok <=>
                      \E e \in 1..Len(MembershipErrors(config.Users[i].Username)) :
                          MembershipErrors(config.Users[i].Username)[e].group
                              = config.Users[i].Groups[k]
            /\ Len(GrantCalls(config.Users[i].Username)) = 1
            /\ InSeq(config.Users[i].Username, result.UsersCreated)

\* one user whose first group name failed and whose second succeeded, and one
\* whose every membership failed and whose privilege was then granted
C23_Witness ==
    /\ SyncDone /\ ~dryRun
    /\ Len(config.Users) = 2
    /\ Len(MembershipLog(1)) = 2
    /\ ~MembershipLog(1)[1].ok /\ MembershipLog(1)[2].ok
    /\ Len(MembershipLog(2)) = 1
    /\ ~MembershipLog(2)[1].ok
    /\ PrivilegeLog(2) # <<>> /\ Failed(PrivilegeLog(2)) = <<>>
    /\ Len(result.UsersCreated) = 2

\* ---- CreateUser of a name the server already holds
\* a CreateUser, in either mode and without connection fault, of a name that is
\* the name of a role of the server
CreateOfExisting ==
    /\ last.op = "CreateUser"
    /\ last.faults = {}
    /\ last.arg.Username \in DOMAIN last.pre.roles

\* C24: CreateUser for a username the server already holds returns nil, sends no
\* statement besides its existence query and logs none, whatever the spec says:
\* the server is left as it was, and for authMethod = iam no rds_iam grant is sent.
C24_CreateExistingIsNoOp ==
    CreateOfExisting =>
        /\ last.err = Nil
        /\ Sent(last.log, "exec") = <<>>
        /\ Sent(last.log, "dry") = <<>>
        /\ last.post = last.pre

\* ---- a failed rds_iam grant
\* the record is a CreateUser of an iam user outside dry-run whose CREATE USER
\* succeeded and whose rds_iam grant failed
GrantLost(r) ==
    /\ r.op = "CreateUser" /\ ~r.dry
    /\ r.arg.AuthMethod = "iam"
    /\ Len(Sent(r.log, "exec")) = 2
    /\ Sent(r.log, "exec")[1].ok
    /\ ~Sent(r.log, "exec")[2].ok

HasRdsIam(d, name) == <<name, RdsIam>> \in d.members

IssuesRdsIamGrant(entries, name) ==
    \E k \in 1..Len(entries) : entries[k].q = grantRDSIAMQuery(name)

\* the i-th user of the walk had its CREATE USER succeed and its rds_iam grant fail
SyncGrantLost(i) ==
    /\ config.Users[i].Enabled
    /\ \E k \in 1..Len(UserLog(i)) :
          UserLog(i)[k].how = "exec" /\ UserLog(i)[k].ok /\ StepRank(UserLog(i)[k]) = 2
    /\ \E k \in 1..Len(UserLog(i)) :
          UserLog(i)[k].how = "exec" /\ ~UserLog(i)[k].ok /\ StepRank(UserLog(i)[k]) = 3

\* a walk of a configuration with the one user, from server state d, without
\* connection fault
LaterSync(d, dry, user) ==
    SyncUser([s |-> Start(d), calls |-> <<>>, res |-> EmptyResult], dry, {}, user)

\* C25: after a CreateUser of an iam user whose CREATE USER succeeded and whose
\* rds_iam grant failed, the call has returned an error and the user is on the
\* server without the rds_iam role; in a walk such a user gets one "create user"
\* error, is not in UsersCreated and has no membership or privilege statement; and
\* a later CreateUser, or a later walk, with the same spec finds the user existing,
\* returns nil, sends no statement and never issues the rds_iam grant.
C25_LostGrantNeverRepaired ==
    /\ GrantLost(last) =>
          /\ last.err # Nil
          /\ last.arg.Username \in DOMAIN last.post.roles
          /\ ~HasRdsIam(last.post, last.arg.Username)
          /\ ~IssuesRdsIamGrant(LaterSync(last.post, FALSE, last.arg).s.log, last.arg.Username)
          /\ LaterSync(last.post, FALSE, last.arg).res.Errors = <<>>
    /\ \A i \in 1..UsersWalked :
          SyncGrantLost(i) =>
              /\ Len(ErrorsFor(config.Users[i].Username, UserOps)) = 1
              /\ ErrorsFor(config.Users[i].Username, UserOps)[1].op = "create user"
              /\ ~InSeq(config.Users[i].Username, result.UsersCreated)
              /\ \A k \in 1..Len(UserLog(i)) : StepRank(UserLog(i)[k]) <= 3
              /\ ~HasRdsIam(db, config.Users[i].Username)
    /\ nOps = 2 /\ GrantLost(prev) /\ last.op = "CreateUser" /\ last.arg = prev.arg
       /\ last.faults = {} =>
          /\ last.err = Nil
          /\ Sent(last.log, "exec") = <<>>
          /\ Sent(last.log, "dry") = <<>>
          /\ ~HasRdsIam(last.post, last.arg.Username)

\* ---- what a walk leaves of the server
AdditiveKeywords == {KW("CREATE USER"), KW("CREATE ROLE"), KW("GRANT")}

\* C26: during and after a walk, every statement it has sent or logged, besides
\* the existence queries, is a CREATE USER, a CREATE ROLE or a GRANT; and every
\* role, with its attributes, every membership and every database privilege the
\* server held when the walk began is still there, whether the configuration
\* names it or not.
C26_SyncOnlyAdds ==
    pc # "idle" =>
        /\ \A k \in 1..Len(log) : log[k].how # "query" => log[k].q[1] \in AdditiveKeywords
        /\ \A n \in DOMAIN pre.roles : n \in DOMAIN db.roles /\ db.roles[n] = pre.roles[n]
        /\ pre.members \subseteq db.members
        /\ pre.privs \subseteq db.privs

\* a walk that changed the server, with a user whose privilege on the server is
\* not declared any more, and a role on the server that the configuration does
\* not name
C26_Witness ==
    /\ SyncDone /\ ~dryRun
    /\ db # pre
    /\ Len(config.Users) = 1
    /\ config.Users[1].Enabled /\ config.Users[1].Privileges = <<>>
    /\ <<config.Users[1].Username, AppDb, Connect>> \in pre.privs
    /\ UserName(2) \in DOMAIN pre.roles

\* ---- the accounting of the result
Occurrences(x, sq) == Len(SelectSeq(sq, LAMBDA y : y = x))

\* sq lists elements of base, in the order of base
Follows(sq, base) == sq = SelectSeq(base, LAMBDA x : InSeq(x, sq))

GroupAccounted(name) ==
    /\ Occurrences(name, result.GroupsCreated)
           + Len(ErrorsFor(name, {"create group"})) = 1
    /\ Len(ErrorsFor(name, {"grant privileges to group"})) <= 1

UserAccounted(user) ==
    /\ Occurrences(user.Username, result.UsersCreated)
           + Len(ErrorsFor(user.Username, {"create user"})) = 1
    /\ \A k \in 1..Len(user.Groups) :
          Len(SelectSeq(MembershipErrors(user.Username),
                        LAMBDA e : e.group = user.Groups[k])) <= 1
    /\ Len(ErrorsFor(user.Username, {"grant privileges to user"})) <= 1

\* C27: when a walk has returned, each group of the configuration has one entry
\* in GroupsCreated or one "create group" error, not both, and at most one
\* privilege error; each enabled user has one entry in UsersCreated or one
\* "create user" error, not both, at most one error for each declared group name
\* and at most one privilege error; every entry of Errors is one of these;
\* GroupsCreated and UsersCreated list their names in configuration order; and
\* UsersModified, UsersRemoved, GroupsModified and GroupsRemoved are empty at
\* every moment.
C27_ResultAccounting ==
    /\ result.UsersModified = <<>> /\ result.UsersRemoved = <<>>
    /\ result.GroupsModified = <<>> /\ result.GroupsRemoved = <<>>
    /\ SyncDone =>
          /\ \A i \in 1..Len(config.Groups) : GroupAccounted(GroupNames[i])
          /\ \A i \in 1..Len(EnabledUsers) : UserAccounted(EnabledUsers[i])
          /\ \A e \in 1..Len(result.Errors) :
                \/ /\ result.Errors[e].op \in GroupOps
                   /\ InSeq(result.Errors[e].target, GroupNames)
                \/ /\ result.Errors[e].op \in UserOps
                   /\ InSeq(result.Errors[e].target, EnabledUserNames)
          /\ Follows(result.GroupsCreated, GroupNames)
          /\ Follows(result.UsersCreated, EnabledUserNames)

\* a run with created groups, a created user, a user that failed, and errors of
\* three kinds
C27_Witness ==
    /\ SyncDone /\ ~dryRun
    /\ Len(result.GroupsCreated) = 2
    /\ Len(config.Users) = 2
    /\ Len(result.UsersCreated) = 1
    /\ \E e \in 1..Len(result.Errors) : result.Errors[e].op = "grant privileges to group"
    /\ \E e \in 1..Len(result.Errors) : result.Errors[e].op = "create user"
    /\ \E e \in 1..Len(result.Errors) : result.Errors[e].op = "add user to group"

\* ---- a failed existence query
\* the existence query of the call, its first round trip, failed
ExistenceQueryFailed(r) ==
    /\ r.op \in {"CreateUser", "DropUser", "CreateGroup"}
    /\ r.log # <<>>
    /\ r.log[1].how = "query"
    /\ ~r.log[1].ok

CreateErrors == SelectSeq(result.Errors, LAMBDA e : e.op \in {"create group", "create user"})

\* C28: when its existence query fails, CreateUser, DropUser or CreateGroup returns
\* an error, in either mode, having neither sent nor logged any other statement
\* and leaving the server as it was; and a dry-run walk on a server that answers
\* no query has, once returned, one create error for each group and each enabled
\* user in configuration order and no other error, empty GroupsCreated and
\* UsersCreated, no statement logged, and a nil error.
C28_ExistenceQueryFailure ==
    /\ ExistenceQueryFailed(last) =>
          /\ last.err # Nil
          /\ Len(last.log) = 1
          /\ last.post = last.pre
    /\ SyncDone /\ dryRun /\ Failed(Sent(log, "query")) = Sent(log, "query") =>
          /\ Len(result.Errors) = Len(config.Groups) + Len(EnabledUsers)
          /\ [e \in 1..Len(result.Errors) |-> result.Errors[e].target]
                 = GroupNames \o EnabledUserNames
          /\ CreateErrors = result.Errors
          /\ result.GroupsCreated = <<>>
          /\ result.UsersCreated = <<>>
          /\ Len(log) = Len(result.Errors)
          /\ db = pre
          /\ ret.err = Nil

\* a dry-run walk of two groups and two enabled users on a server out of reach
C28_Witness ==
    /\ SyncDone /\ dryRun
    /\ Len(config.Groups) = 2
    /\ Len(EnabledUsers) = 2
    /\ Len(Failed(Sent(log, "query"))) = 4
    /\ Len(result.Errors) = 4
    /\ ret.returned

\* ---- a name held by a principal of the other kind
\* a CreateGroup, its existence query answered, of a name a login user holds
GroupOnUserName ==
    /\ last.op = "CreateGroup"
    /\ last.log[1].ok
    /\ PgUserRow(last.pre, last.arg.Name)

\* a CreateUser, its existence query answered, of a name a role without login holds
UserOnGroupName ==
    /\ last.op = "CreateUser"
    /\ last.log[1].ok
    /\ last.arg.Username \in DOMAIN last.pre.roles
    /\ ~last.pre.roles[last.arg.Username].login

\* a group of the walk named like a login user gets into GroupsCreated unmade
C29_SyncRecordsGroup ==
    \A i \in 1..GroupsWalked :
        PgUserRow(pre, GroupNames[i]) /\ GroupLog(i)[1].ok =>
            /\ InSeq(GroupNames[i], result.GroupsCreated)
            /\ \A k \in 1..Len(GroupLog(i)) : StepRank(GroupLog(i)[k]) # 2
            /\ db.roles[GroupNames[i]] = pre.roles[GroupNames[i]]

C29_GroupOnUserName ==
    GroupOnUserName => last.err = Nil /\ Len(last.log) = 1 /\ last.post = last.pre

JobName == IF job.op = "CreateUser" THEN job.arg.Username ELSE job.arg.Name

BothReturned == \A p \in Managers : procs[p].pc = "returned"

Creations(p) ==
    SelectSeq(procs[p].s.log, LAMBDA e : e.how = "exec" /\ e.ok /\ StepRank(e) = 2)

\* C30: when two Managers have both returned from a CreateUser, or a CreateGroup,
\* of one name the server did not hold, whatever the order of their round trips,
\* both have returned nil, and outside dry-run one CREATE statement succeeded and
\* the role is on the server.
C30_ConcurrentCreateSafe ==
    job # NoJob /\ BothReturned /\ JobName \notin DOMAIN pre.roles =>
        /\ \A p \in Managers : procs[p].s.err = Nil
        /\ ~dryRun =>
              /\ Len(Creations(1)) + Len(Creations(2)) = 1
              /\ JobName \in DOMAIN db.roles

====
